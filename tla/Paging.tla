------------------------------- MODULE Paging -------------------------------
(***************************************************************************)
(* Paged queries: `get_connection`, `collect_records` and                  *)
(* `get_filtered_iter` of src/graphql.rs, `network_raw_events` and         *)
(* `network_connection` of src/graphql/network.rs, and the keys, bounds    *)
(* and iterators of src/storage.rs they are built on.                      *)
(*                                                                         *)
(* A client walks over the events of one source, forwards with `first` and *)
(* `after` or backwards with `last` and `before`, taking as cursor what    *)
(* the page before ended with, until a page says there is no more.  It     *)
(* asks for one kind of event, or for all network events merged.           *)
(* Meanwhile events come in and retention deletes old ones.                *)
(*                                                                         *)
(* A key is the source's name, a zero byte and the timestamp in big-endian *)
(* two's complement, and RocksDB orders keys bytewise: by source first,    *)
(* then by the timestamp as an unsigned number.  Names are modelled by     *)
(* their rank in that order.                                               *)
(***************************************************************************)
EXTENDS Integers, FiniteSets, FiniteSetsExt, SequencesExt

CONSTANTS
    Kinds,              \* kinds of network events, in the order of the merge
    MaxTime,            \* i64::MAX
    MAXIMUM_PAGE_SIZE,  \* 100 in the code
    Records,            \* records that may be stored: kind, source and time
    Invalid,            \* the records among them that do not deserialize
    Passing,            \* the records among them that pass the filter
    Source,             \* the source the client asks for
    Ranges,             \* the time ranges it may ask for, start and end
    Sizes,              \* the page sizes it may ask for
    Cutoffs,            \* the times retention may delete up to
    RetainFrom,         \* the time retention deletes from (61 s in the code)
    None                \* an argument that is not given

Time == (-MaxTime - 1)..MaxTime
KindSet == Range(Kinds)
Record == [kind : KindSet, source : Nat, time : Time]

ASSUME KindsAssumption == Kinds \in Seq(KindSet) /\ IsInjective(Kinds)
ASSUME MaxTimeAssumption == MaxTime \in Nat
ASSUME MaximumAssumption == MAXIMUM_PAGE_SIZE \in Nat \ {0}
ASSUME RecordsAssumption == Records \subseteq Record
ASSUME RangesAssumption ==
    \A g \in Ranges : /\ g.start \in Time \cup {None}
                      /\ g.end \in Time \cup {None}
ASSUME SizesAssumption == Sizes \subseteq Nat \cup {None}
ASSUME SourceAssumption == Source \in Nat
ASSUME NoneAssumption == None \notin Int \cup KindSet \cup (Nat \X Nat)

VARIABLES
    db,      \* the records stored
    walk,    \* what the client is doing
    query,   \* the query it is walking over
    size,    \* size of the page it is asking for
    cursor,  \* key of the edge the next page is to follow or precede
    iters,   \* merged query: the iterators opened so far, one per kind
    page,    \* edges of the last page
    seen,    \* edges of all pages, in the order of the list
    kept     \* history: records stored all the time since the walk began

walkVars == <<walk, query, size, cursor, iters, page, seen>>
vars == <<db, walkVars, kept>>

Queries == [kind : KindSet \cup {None}, forward : BOOLEAN, range : Ranges]

-----------------------------------------------------------------------------
(* Keys and bounds.                                                        *)

Unsigned(t) == IF t < 0 THEN t + 2 * (MaxTime + 1) ELSE t
StorageKey(s, t) == <<s, Unsigned(t)>>
Key(r) == StorageKey(r.source, r.time)

Precedes(a, b) == a[1] < b[1] \/ (a[1] = b[1] /\ a[2] < b[2])

LowerClosedBound(s, t) == StorageKey(s, IF t = None THEN 0 ELSE t)
UpperClosedBound(s, t) == StorageKey(s, IF t = None THEN MaxTime ELSE t)

\* Mutant: the upper bound is closed.
UpperOpenBoundClosed(s, t) == StorageKey(s, IF t = None THEN MaxTime ELSE t)

\* checked_sub(1); a bound that comes out negative is as good as none.
UpperOpenBound(s, t) ==
    StorageKey(s, IF t # None /\ t - 1 \in 0..MaxTime THEN t - 1 ELSE MaxTime)

-----------------------------------------------------------------------------
(* Iterators.  One yields the records of a kind in the order of their      *)
(* keys or against it; it is modelled by the set of those still to come.   *)

\* An iterator comes to r before it comes to s.
Before(forward, r, s) ==
    IF forward THEN Precedes(Key(r), Key(s)) ELSE Precedes(Key(s), Key(r))

\* boundary_iter: the records of a kind from one key to another, both
\* included, read from the database as it is when the iterator is created.
BoundaryIter(kind, from, to, forward) ==
    LET lower == IF forward THEN from ELSE to
        upper == IF forward THEN to ELSE from
    IN  {r \in db : /\ r.kind = kind
                    /\ ~Precedes(Key(r), lower)
                    /\ ~Precedes(upper, Key(r))}

\* The iterator of a query: it starts at the cursor if there is one.
QueryIter(kind, q) ==
    LET lower == LowerClosedBound(Source, q.range.start)
        upper == UpperOpenBound(Source, q.range.end)
        from == IF cursor # None THEN cursor ELSE IF q.forward THEN lower ELSE upper
    IN  BoundaryIter(kind, from, IF q.forward THEN upper ELSE lower, q.forward)

\* Any other cursor is refused as an "invalid cursor".
CursorAccepted(q) ==
    cursor # None =>
        IF q.forward
        THEN ~Precedes(cursor, LowerClosedBound(Source, q.range.start))
        ELSE ~Precedes(UpperClosedBound(Source, q.range.end), cursor)

\* Mutant: the cursor's own record is not skipped.
SkipCursorNot(items) == items

\* Mutant: with a cursor the first record is skipped whatever it is.
SkipCursorBlindly(items) ==
    {r \in items : cursor # None => \E s \in items : Before(query.forward, s, r)}

\* The record the cursor names was on the page before: it is skipped if it
\* comes first and can be read.
SkipCursor(items) ==
    items \ {r \in items \ Invalid : /\ Key(r) = cursor
                                    /\ \A s \in items : ~Before(query.forward, s, r)}

\* FilteredIter: ends with the first record that cannot be read.
FilteredIter(items) ==
    {r \in items \cap Passing :
        \A s \in items \cap Invalid : Before(query.forward, r, s)}

-----------------------------------------------------------------------------
(* Pages.                                                                  *)

PageSize(n) ==
    IF n = None THEN MAXIMUM_PAGE_SIZE ELSE Min({n, MAXIMUM_PAGE_SIZE})

\* The set S as a sequence, in a strict total order given as a set of pairs.
Sorted(S, order) ==
    [i \in 1..Cardinality(S) |->
        CHOOSE r \in S : Cardinality({s \in S : <<s, r>> \in order}) = i - 1]

KeyOrder(S, forward) == {p \in S \X S : Before(forward, p[1], p[2])}

Passed(items) == (items \cap Passing) \ Invalid

\* Mutant: a record that cannot be read ends the page.
CollectRecordsStops(items, n) ==
    LET good == FilteredIter(items)
        taken == {r \in good : Cardinality({s \in good : Before(query.forward, s, r)}) < n}
    IN  [edges |-> Sorted(taken, KeyOrder(taken, query.forward)), more |-> taken # good]

\* collect_records: the number of records is compared with the size after
\* each record that can be read, whether it passes the filter or not.
CollectRecords(items, n) ==
    LET stops == {r \in items \ Invalid :
                    Cardinality({s \in Passed(items) : ~Before(query.forward, r, s)}) = n}
        taken == {r \in items : \A s \in stops : ~Before(query.forward, s, r)}
        edges == Passed(taken)
    IN  [edges |-> Sorted(edges, KeyOrder(edges, query.forward)), more |-> taken # items]

KindRank(r) == CHOOSE i \in DOMAIN Kinds : Kinds[i] = r.kind

\* Mutant: the next edge is the first one of the first kind that has any.
NetworkConnectionUnsorted(lists, n, forward) ==
    LET all == UNION Range(lists)
        merged == Sorted(all, {p \in all \X all :
                      \/ KindRank(p[1]) < KindRank(p[2])
                      \/ KindRank(p[1]) = KindRank(p[2]) /\ Before(forward, p[1], p[2])})
        k == Min({n, Len(merged)})
    IN  [edges |-> SubSeq(merged, 1, k), more |-> k < Len(merged)]

\* Of the heads of two iterators this one is taken first.
Earlier(forward, r, s) ==
    \/ IF forward THEN r.time < s.time ELSE r.time > s.time
    \/ r.time = s.time /\ KindRank(r) < KindRank(s)

MergeOrder(S, forward) == {p \in S \X S : Earlier(forward, p[1], p[2])}

\* network_connection: the earliest (latest) of the heads again and again, of
\* equal ones that of the first kind, until the page is full or the iterators
\* are at their ends.  The size is looked at after each edge.
NetworkConnection(lists, n, forward) ==
    LET all == UNION Range(lists)
        merged == Sorted(all, MergeOrder(all, forward))
        k == Min({Max({n, 1}), Len(merged)})
    IN  [edges |-> SubSeq(merged, 1, k), more |-> k < Len(merged)]

-----------------------------------------------------------------------------
(* The client.                                                             *)

Init ==
    /\ db = {}
    /\ walk = "idle" /\ query = None /\ size = 0 /\ cursor = None
    /\ iters = <<>> /\ page = <<>> /\ seen = <<>>
    /\ kept = {}

\* The client decides what to walk over.
Begin(q) ==
    /\ walk = "idle"
    /\ walk' = "ask" /\ query' = q
    /\ kept' = db
    /\ UNCHANGED <<db, size, cursor, iters, page, seen>>

\* The client asks for a page; a cursor that is not accepted is an error.
Ask(n) ==
    /\ walk = "ask" /\ CursorAccepted(query)
    /\ walk' = IF query.kind = None THEN "open" ELSE "get"
    /\ size' = PageSize(n)
    /\ UNCHANGED <<db, query, cursor, iters, page, seen, kept>>

\* A page of edges in the order of the iterator comes back.
Answer(result) ==
    LET edges == IF query.forward THEN result.edges ELSE Reverse(result.edges)
    IN  /\ page' = edges
        /\ seen' = IF query.forward THEN seen \o edges ELSE edges \o seen
        /\ cursor' = IF edges = <<>> THEN cursor
                     ELSE Key(IF query.forward THEN Last(edges) ELSE Head(edges))
        /\ walk' = IF result.more THEN "ask" ELSE "done"

\* load_connection, for one kind of event.
GetConnection ==
    /\ walk = "get"
    /\ Answer(CollectRecords(SkipCursor(QueryIter(query.kind, query)), size))
    /\ UNCHANGED <<db, query, size, iters, kept>>

\* Mutant: an iterator is opened on the first kind's store.
OpenIterFirstStore ==
    /\ walk = "open" /\ Len(iters) < Len(Kinds)
    /\ LET items == FilteredIter(QueryIter(Kinds[1], query))
       IN  iters' = Append(iters, SkipCursor(items))
    /\ UNCHANGED <<db, walk, query, size, cursor, page, seen, kept>>

\* network_raw_events opens the iterators one after the other.
OpenIter ==
    /\ walk = "open" /\ Len(iters) < Len(Kinds)
    /\ LET items == FilteredIter(QueryIter(Kinds[Len(iters) + 1], query))
       IN  iters' = Append(iters, SkipCursor(items))
    /\ UNCHANGED <<db, walk, query, size, cursor, page, seen, kept>>

GetNetworkConnection ==
    /\ walk = "open" /\ Len(iters) = Len(Kinds)
    /\ Answer(NetworkConnection(iters, size, query.forward))
    /\ iters' = <<>>
    /\ UNCHANGED <<db, query, size, kept>>

-----------------------------------------------------------------------------
(* Ingest and retention.                                                   *)

\* An event comes in under a key of its own.
Insert(r) ==
    /\ r \notin db
    /\ db' = db \cup {r}
    /\ UNCHANGED <<walkVars, kept>>

\* delete_range_cf for one source and one kind, the upper end excluded.
Retain(kind, s, cutoff) ==
    LET old == {r \in db : /\ r.kind = kind
                           /\ ~Precedes(Key(r), StorageKey(s, RetainFrom))
                           /\ Precedes(Key(r), StorageKey(s, cutoff))}
    IN  /\ old # {}
        /\ db' = db \ old
        /\ kept' = kept \ old
        /\ UNCHANGED walkVars

-----------------------------------------------------------------------------
Serve == GetConnection \/ OpenIter \/ GetNetworkConnection

Next ==
    \/ \E q \in Queries : Begin(q)
    \/ \E n \in Sizes : Ask(n)
    \/ Serve
    \/ \E r \in Records : Insert(r)
    \/ \E k \in KindSet, s \in {r.source : r \in Records}, c \in Cutoffs : Retain(k, s, c)

Spec == Init /\ [][Next]_vars

-----------------------------------------------------------------------------
(* Properties.                                                             *)

\* Every variable keeps its type; the iterator of a kind yields that kind.
TypeOK ==
    /\ db \subseteq Records /\ kept \subseteq db
    /\ walk \in {"idle", "ask", "get", "open", "done"}
    /\ query \in Queries \cup {None} /\ size \in Nat
    /\ cursor \in {Key(r) : r \in Records} \cup {None}
    /\ iters \in Seq(SUBSET Records) /\ Len(iters) <= Len(Kinds)
    /\ \A i \in DOMAIN iters : \A r \in iters[i] : r.kind = Kinds[i]
    /\ page \in Seq(Records) /\ seen \in Seq(Records)

\* The records a query is about, said without keys: those of the source, of
\* the kind if one is given, that can be read and pass the filter, from the
\* start to before the end.  Times before 1970 are in no range.
Wanted(q, r) ==
    /\ r.source = Source /\ q.kind \in {None, r.kind}
    /\ r \in Passing \ Invalid
    /\ r.time >= IF q.range.start = None THEN 0 ELSE q.range.start
    /\ q.range.end # None => r.time < q.range.end
    /\ r.time >= 0

\* Whatever comes in between the pages, a walk shows the records in the order
\* of time and none of them twice, in both directions.
WalkOrdered ==
    \A i, j \in 1..Len(seen) :
        i < j => seen[i] # seen[j] /\ seen[i].time <= seen[j].time

\* A walk shows nothing but what was asked for: byte order of the keys, open
\* and closed bounds and cursors together amount to the range asked for.
OnlyWanted == \A r \in Range(seen) : Wanted(query, r)

\* A walk over one kind of event that has come to its end has shown every
\* record asked for that was there all the time, whatever came in or was
\* deleted between the pages, the record of the cursor included.
WalkComplete ==
    walk = "done" /\ query.kind # None
        => \A r \in kept : Wanted(query, r) => r \in Range(seen)

\* A merged walk can miss records for two reasons only: a page ended with a
\* record of another kind with the same key, which is all that a cursor
\* tells; or a record of the same kind, on the way to it, cannot be read.
MergedMissesOnlyTwins ==
    walk = "done" /\ query.kind = None
        => \A r \in kept :
              Wanted(query, r) /\ r \notin Range(seen)
                => \/ \E s \in Range(seen) : Key(s) = Key(r)
                   \/ \E s \in Invalid :
                         /\ s.kind = r.kind /\ s.source = Source
                         /\ IF query.forward THEN s.time < r.time ELSE s.time > r.time

\* The next page is asked for from farther on.
Farther ==
    \/ cursor = None
    \/ query.forward /\ Precedes(cursor, cursor')
    \/ ~query.forward /\ Precedes(cursor', cursor)

\* A walk comes to its end: a page that says there is more moves the cursor,
\* strictly, and to a key that the next request does not refuse.
CursorAdvances ==
    [][walk' = "ask" /\ walk \in {"get", "open"}
        => cursor' # None /\ Farther /\ CursorAccepted(query)']_vars

\* What the changelog says of the whole API, that it supports cursor-based
\* pagination: a merged walk, too, shows every record.
MergedComplete ==
    walk = "done" /\ query.kind = None
        => \A r \in kept : Wanted(query, r) => r \in Range(seen)
=============================================================================
