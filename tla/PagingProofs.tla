---------------------------- MODULE PagingProofs ----------------------------
(***************************************************************************)
(* Proofs about Paging, for every width of the timestamp, every number of  *)
(* kinds and sources, and whatever is stored, deleted and asked for: what  *)
(* the bounds of a query amount to, and what a walk over the pages shows.  *)
(***************************************************************************)
EXTENDS Paging, FiniteSetTheorems, SequenceTheorems, TLAPS

\* The key order is irreflexive, transitive and total on keys: iterators
\* return a definite sequence, and a cursor splits the records in two.
LEMMA PrecedesIsStrictOrder ==
    ASSUME NEW a \in Nat \X Nat, NEW b \in Nat \X Nat, NEW c \in Nat \X Nat
    PROVE  /\ ~Precedes(a, a)
           /\ Precedes(a, b) /\ Precedes(b, c) => Precedes(a, c)
           /\ Precedes(a, b) \/ Precedes(b, a) \/ a = b
<1>1. ~Precedes(a, a)
  BY DEF Precedes
<1>2. Precedes(a, b) /\ Precedes(b, c) => Precedes(a, c)
  BY DEF Precedes
<1>3. Precedes(a, b) \/ Precedes(b, a) \/ a = b
  <2>1. a = <<a[1], a[2]>> /\ b = <<b[1], b[2]>>
    OBVIOUS
  <2>2. a[1] \in Nat /\ a[2] \in Nat /\ b[1] \in Nat /\ b[2] \in Nat
    OBVIOUS
  <2>3. (a[1] = b[1] /\ a[2] = b[2]) \/ Precedes(a, b) \/ Precedes(b, a)
    BY <2>2 DEF Precedes
  <2> QED BY <2>1, <2>3
<1> QED BY <1>1, <1>2, <1>3

\* A timestamp as an unsigned number: a natural number, and below or at
\* MaxTime exactly when the timestamp is not negative.
LEMMA UnsignedFacts ==
    ASSUME NEW t \in Time
    PROVE  /\ Unsigned(t) \in Nat
           /\ Unsigned(t) <= MaxTime <=> t >= 0
           /\ t >= 0 => Unsigned(t) = t
BY MaxTimeAssumption DEF Time, Unsigned

\* boundary_iter between lower_closed_bound_end_key(start) and
\* upper_open_bound_end_key(end) yields the records of the source with
\* start <= time < end, and no record of another source, provided that start
\* is not before 1970 and end is after it.  The other ranges are the ones for
\* which the code does something else: an end at or before 1970 is no bound
\* at all, and nothing is at or after a start before 1970.
THEOREM BoundsAreTheRange ==
    ASSUME NEW r \in Record, NEW s \in Nat, NEW start \in Time, NEW end \in Time,
           start >= 0, end > 0
    PROVE  (/\ ~Precedes(Key(r), LowerClosedBound(s, start))
            /\ ~Precedes(UpperOpenBound(s, end), Key(r)))
             <=> r.source = s /\ start <= r.time /\ r.time < end
<1>1. start # None /\ end # None /\ end - 1 \in 0..MaxTime
  BY NoneAssumption, MaxTimeAssumption DEF Time
<1>2. /\ r.source \in Nat /\ r.time \in Time /\ r.time \in Int
      /\ start \in Int /\ end \in Int
  BY MaxTimeAssumption DEF Record, Time
<1>3. LowerClosedBound(s, start) = <<s, start>>
  BY <1>1, UnsignedFacts DEF LowerClosedBound, StorageKey
<1>4. UpperOpenBound(s, end) = <<s, end - 1>>
  <2>1. end - 1 \in Time /\ end - 1 >= 0
    BY <1>1, <1>2, MaxTimeAssumption DEF Time
  <2>2. Unsigned(end - 1) = end - 1
    BY <2>1, UnsignedFacts
  <2> QED BY <1>1, <2>2 DEF UpperOpenBound, StorageKey
<1>5. Key(r) = <<r.source, Unsigned(r.time)>>
  BY DEF Key, StorageKey
<1>6. /\ Unsigned(r.time) \in Nat
      /\ Unsigned(r.time) <= MaxTime <=> r.time >= 0
      /\ r.time >= 0 => Unsigned(r.time) = r.time
  BY <1>2, UnsignedFacts
<1>7. (/\ ~Precedes(Key(r), LowerClosedBound(s, start))
       /\ ~Precedes(UpperOpenBound(s, end), Key(r)))
        <=> r.source = s /\ start <= Unsigned(r.time) /\ Unsigned(r.time) <= end - 1
  BY <1>2, <1>3, <1>4, <1>5, <1>6 DEF Precedes
<1>8. start <= Unsigned(r.time) /\ Unsigned(r.time) <= end - 1
        <=> start <= r.time /\ r.time < end
  BY <1>1, <1>2, <1>6, MaxTimeAssumption
<1> QED BY <1>7, <1>8

\* A cursor that a walk hands back is not refused: it is the key of a record
\* of the range, which lies between the closed bounds.
THEOREM CursorsOfTheRangeAreAccepted ==
    ASSUME NEW r \in Record, NEW s \in Nat, NEW start \in Time, NEW end \in Time,
           start >= 0, end > 0,
           r.source = s, start <= r.time, r.time < end
    PROVE  /\ ~Precedes(Key(r), LowerClosedBound(s, start))
           /\ ~Precedes(UpperClosedBound(s, end), Key(r))
<1>1. start # None /\ end # None
  BY NoneAssumption, MaxTimeAssumption DEF Time
<1>2. r.time \in Time /\ r.time >= 0 /\ start \in Int /\ end \in Int /\ r.time \in Int
  BY MaxTimeAssumption DEF Record, Time
<1>3. LowerClosedBound(s, start) = <<s, start>>
  BY <1>1, UnsignedFacts DEF LowerClosedBound, StorageKey
<1>4. UpperClosedBound(s, end) = <<s, end>>
  <2>1. end >= 0
    BY <1>2
  <2>2. Unsigned(end) = end
    BY <2>1, UnsignedFacts
  <2> QED BY <1>1, <2>2 DEF UpperClosedBound, StorageKey
<1>5. Key(r) = <<s, r.time>>
  BY <1>2, UnsignedFacts DEF Key, StorageKey
<1> QED BY <1>2, <1>3, <1>4, <1>5 DEF Precedes
-----------------------------------------------------------------------------
(* The inductive invariant.                                                *)

\* The ranges begin not before 1970 and end after it.
AfterEpoch ==
    \A g \in Ranges : /\ g.start # None => g.start >= 0
                      /\ g.end # None => g.end > 0

\* Between the bounds that a query puts together.
Within(q, r) ==
    /\ ~Precedes(Key(r), LowerClosedBound(Source, q.range.start))
    /\ ~Precedes(UpperOpenBound(Source, q.range.end), Key(r))

\* What a walk is to show, in terms of the bounds.
Selected(q, r) == Within(q, r) /\ q.kind \in {None, r.kind} /\ r \in Passing \ Invalid

\* Of two records between the bounds the walk comes to this one first.
Ahead(q, r, s) == IF q.forward THEN r.time < s.time ELSE s.time < r.time

\* The walk has not come to the record yet.
ToCome(r) ==
    \/ cursor = None
    \/ IF query.forward THEN Precedes(cursor, Key(r)) ELSE Precedes(Key(r), cursor)

\* The reasons for which a merged walk misses a record.
Twin(r) == \E s \in Range(seen) : Key(s) = Key(r)
Blocked(r) ==
    \E s \in Invalid :
        /\ s.kind = r.kind /\ s.source = Source
        /\ IF query.forward THEN s.time < r.time ELSE s.time > r.time
Excused(r) == query.kind = None /\ (Twin(r) \/ Blocked(r))

Types ==
    /\ TypeOK
    /\ IsFiniteSet(db) /\ IsFiniteSet(UNION Range(iters))
    /\ IF walk = "idle" THEN cursor = None /\ seen = <<>> ELSE query \in Queries
    /\ walk = "get" => query.kind # None
    /\ IF walk = "open" THEN query.kind = None ELSE iters = <<>>

\* The cursor is the key of a record that the query selects, and what has
\* been shown is not beyond it.
Shown ==
    /\ cursor # None => \E c \in Records : Selected(query, c) /\ cursor = Key(c)
    /\ \A i \in 1..Len(seen) : Selected(query, seen[i]) /\ ~ToCome(seen[i])

\* The iterators of a merged page yield what is selected and beyond the
\* cursor, and all of it but what they are kept from.
Yields ==
    \A i \in 1..Len(iters) :
        /\ \A r \in iters[i] : Selected(query, r) /\ ToCome(r)
        /\ \A r \in kept : /\ r.kind = Kinds[i] /\ Selected(query, r) /\ ToCome(r)
                           => r \in iters[i] \/ Blocked(r)

\* What the walk has passed has been shown.
Complete ==
    walk # "idle" =>
        \A r \in kept : Selected(query, r) /\ (walk = "done" \/ ~ToCome(r))
                          => r \in Range(seen) \/ Excused(r)

IInv == Types /\ Shown /\ WalkOrdered /\ Yields /\ Complete

-----------------------------------------------------------------------------
(* Keys and bounds of a query.                                             *)

\* The key of a record between the bounds is its source and its time.
LEMMA KeyFacts ==
    ASSUME NEW r \in Record
    PROVE  /\ Key(r) \in Nat \X Nat
           /\ Key(r)[1] = r.source /\ Key(r)[2] = Unsigned(r.time)
           /\ r.source \in Nat /\ r.time \in Time /\ r.time \in Int
           /\ r.time >= 0 => Key(r) = <<r.source, r.time>>
<1>1. r.source \in Nat /\ r.time \in Time /\ r.time \in Int
  BY MaxTimeAssumption DEF Record, Time
<1>2. Unsigned(r.time) \in Nat /\ (r.time >= 0 => Unsigned(r.time) = r.time)
  BY <1>1, UnsignedFacts
<1> QED BY <1>1, <1>2 DEF Key, StorageKey

\* Where the bounds of a query lie, whatever range it gives.
LEMMA BoundFacts ==
    ASSUME NEW q \in Queries
    PROVE  /\ \E u \in Nat : LowerClosedBound(Source, q.range.start) = <<Source, u>>
           /\ \E v \in 0..MaxTime : UpperOpenBound(Source, q.range.end) = <<Source, v>>
<1>1. q.range \in Ranges
  BY DEF Queries
<1>2. q.range.start \in Time \cup {None} /\ q.range.end \in Time \cup {None}
  BY <1>1, RangesAssumption
<1>3. 0 \in Time /\ MaxTime \in Time /\ \A t \in 0..MaxTime : t \in Time /\ Unsigned(t) = t
  BY MaxTimeAssumption DEF Time, Unsigned
<1>4. (IF q.range.start = None THEN 0 ELSE q.range.start) \in Time
  BY <1>2, <1>3
<1>5. Unsigned(IF q.range.start = None THEN 0 ELSE q.range.start) \in Nat
  BY <1>4, UnsignedFacts
<1>6. PICK v : v = IF q.range.end # None /\ q.range.end - 1 \in 0..MaxTime
                   THEN q.range.end - 1 ELSE MaxTime
  OBVIOUS
<1>7. v \in 0..MaxTime
  BY <1>6, MaxTimeAssumption
<1>8. UpperOpenBound(Source, q.range.end) = <<Source, v>>
  BY <1>3, <1>6, <1>7 DEF UpperOpenBound, StorageKey
<1> QED BY <1>5, <1>7, <1>8 DEF LowerClosedBound, StorageKey

\* What lies between the bounds is of the source, and not before 1970.
LEMMA WithinFacts ==
    ASSUME NEW q \in Queries, NEW r \in Record, Within(q, r)
    PROVE  /\ r.source = Source /\ r.time \in Nat /\ r.time <= MaxTime
           /\ Key(r) = <<Source, r.time>>
<1>1. PICK u \in Nat : LowerClosedBound(Source, q.range.start) = <<Source, u>>
  BY BoundFacts
<1>2. PICK v \in 0..MaxTime : UpperOpenBound(Source, q.range.end) = <<Source, v>>
  BY BoundFacts
<1>3. /\ Key(r)[1] = r.source /\ Key(r)[2] = Unsigned(r.time)
      /\ r.source \in Nat /\ r.time \in Time /\ r.time \in Int
      /\ r.time >= 0 => Key(r) = <<r.source, r.time>>
  BY KeyFacts
<1>4. Unsigned(r.time) \in Nat /\ (Unsigned(r.time) <= MaxTime <=> r.time >= 0)
  BY <1>3, UnsignedFacts
<1>5. /\ ~(r.source < Source \/ (r.source = Source /\ Unsigned(r.time) < u))
      /\ ~(Source < r.source \/ (Source = r.source /\ v < Unsigned(r.time)))
  BY <1>1, <1>2, <1>3 DEF Within, Precedes
<1>6. r.source = Source
  BY <1>3, <1>5, SourceAssumption
<1>7. Unsigned(r.time) <= v /\ v <= MaxTime
  BY <1>4, <1>5, <1>6
<1>8. r.time >= 0
  BY <1>4, <1>7, MaxTimeAssumption
<1>9. r.time <= MaxTime
  BY <1>3 DEF Time
<1> QED BY <1>3, <1>6, <1>8, <1>9

\* Between the bounds the order of the keys is that of time.
LEMMA OrderWithin ==
    ASSUME NEW q \in Queries, NEW r \in Record, NEW s \in Record, Within(q, r), Within(q, s)
    PROVE  /\ Before(q.forward, r, s) <=> Ahead(q, r, s)
           /\ Key(r) = Key(s) <=> r.time = s.time
           /\ Ahead(q, r, s) \/ Ahead(q, s, r) \/ r.time = s.time
           /\ ~(Ahead(q, r, s) /\ Ahead(q, s, r))
           /\ r.time = s.time /\ r.kind = s.kind => r = s
<1>1. /\ Key(r) = <<Source, r.time>> /\ r.source = Source /\ r.time \in Nat
      /\ Key(s) = <<Source, s.time>> /\ s.source = Source /\ s.time \in Nat
  BY WithinFacts
<1>2. Precedes(Key(r), Key(s)) <=> r.time < s.time
  BY <1>1, SourceAssumption DEF Precedes
<1>3. Precedes(Key(s), Key(r)) <=> s.time < r.time
  BY <1>1, SourceAssumption DEF Precedes
<1>4. r.time = s.time /\ r.kind = s.kind => r = s
  <2>1. /\ r = [kind |-> r.kind, source |-> r.source, time |-> r.time]
        /\ s = [kind |-> s.kind, source |-> s.source, time |-> s.time]
    BY DEF Record
  <2> QED BY <1>1, <2>1
<1>5. Key(r) = Key(s) <=> r.time = s.time
  BY <1>1
<1>6. /\ Ahead(q, r, s) \/ Ahead(q, s, r) \/ r.time = s.time
      /\ ~(Ahead(q, r, s) /\ Ahead(q, s, r))
  BY <1>1 DEF Ahead
<1>7. Before(q.forward, r, s) <=> Ahead(q, r, s)
  BY <1>2, <1>3 DEF Before, Ahead
<1> QED BY <1>4, <1>5, <1>6, <1>7

\* With a range after 1970 the bounds select what the query is about.
LEMMA SelectedIsWanted ==
    ASSUME AfterEpoch, NEW q \in Queries, NEW r \in Record
    PROVE  Selected(q, r) <=> Wanted(q, r)
<1>1. q.range \in Ranges /\ q.range.start \in Time \cup {None} /\ q.range.end \in Time \cup {None}
  BY RangesAssumption DEF Queries
<1>2. /\ q.range.start # None => q.range.start >= 0
      /\ q.range.end # None => q.range.end > 0
  BY <1>1 DEF AfterEpoch
<1> DEFINE start == IF q.range.start = None THEN 0 ELSE q.range.start
           last == IF q.range.end = None THEN MaxTime ELSE q.range.end - 1
<1>3. /\ start \in Time /\ start \in Int /\ start >= 0
      /\ last \in Time /\ last \in Int /\ last >= 0
  BY <1>1, <1>2, MaxTimeAssumption DEF Time
<1>4. LowerClosedBound(Source, q.range.start) = <<Source, start>>
  BY <1>3, UnsignedFacts DEF LowerClosedBound, StorageKey
<1>5. UpperOpenBound(Source, q.range.end) = <<Source, last>>
  <2>1. last = IF q.range.end # None /\ q.range.end - 1 \in 0..MaxTime
               THEN q.range.end - 1 ELSE MaxTime
    BY <1>1, <1>2, MaxTimeAssumption DEF Time
  <2>2. Unsigned(last) = last
    BY <1>3, UnsignedFacts
  <2> QED BY <2>1, <2>2 DEF UpperOpenBound, StorageKey
<1>6. /\ Key(r)[1] = r.source /\ Key(r)[2] = Unsigned(r.time)
      /\ r.source \in Nat /\ r.time \in Time /\ r.time \in Int
  BY KeyFacts
<1>7. /\ Unsigned(r.time) \in Nat /\ (Unsigned(r.time) <= MaxTime <=> r.time >= 0)
      /\ (r.time >= 0 => Unsigned(r.time) = r.time)
  BY <1>6, UnsignedFacts
<1>8. Within(q, r) <=> /\ r.source = Source
                       /\ start <= Unsigned(r.time) /\ Unsigned(r.time) <= last
  <2> HIDE DEF start, last
  <2> QED BY <1>3, <1>4, <1>5, <1>6, <1>7, SourceAssumption DEF Within, Precedes
<1>9. last <= MaxTime
  BY <1>3 DEF Time
<1>10. Within(q, r) <=> /\ r.source = Source /\ r.time >= 0
                        /\ start <= r.time /\ r.time <= last
  <2> HIDE DEF start, last
  <2> QED BY <1>3, <1>6, <1>7, <1>8, <1>9, MaxTimeAssumption
<1>11. (q.range.end # None => r.time < q.range.end) <=> r.time <= last
  BY <1>1, <1>6, MaxTimeAssumption DEF Time
<1> QED BY <1>10, <1>11 DEF Selected, Wanted

-----------------------------------------------------------------------------
(* Sets of numbers, and sets put in order.                                 *)

\* A set of naturals that is not empty has a least element.
LEMMA LeastNat ==
    ASSUME NEW T \in SUBSET Nat, T # {}
    PROVE  \E x \in T : \A y \in T : x <= y
<1> DEFINE R == {ss \in Nat \X Nat : ss[1] < ss[2]}
<1>1. IsWellFoundedOn(R, Nat)
  BY NatLessThanWellFounded DEF OpToRel
<1> HIDE DEF R
<1>2. PICK x \in T : \A y \in T : ~(<<y, x>> \in R)
  BY <1>1, WFMin
<1>3. \A m \in Nat, n \in Nat : n < m => <<n, m>> \in R
  BY DEF R
<1>4. \A y \in T : ~(y < x)
  BY <1>2, <1>3, Zenon
<1> QED BY <1>4

\* Of records between the bounds of a query one comes first.
LEMMA OneComesFirst ==
    ASSUME NEW q \in Queries, NEW S \in SUBSET Record, S # {},
           \A r \in S : Within(q, r)
    PROVE  \E r \in S : \A s \in S : ~Ahead(q, s, r)
<1> DEFINE place(r) == IF q.forward THEN r.time ELSE MaxTime - r.time
           T == {place(r) : r \in S}
<1>1. \A r \in S : r.time \in Nat /\ r.time <= MaxTime
  BY WithinFacts
<1>2. \A r \in S : place(r) \in Nat
  BY <1>1, MaxTimeAssumption
<1>3. T \in SUBSET Nat /\ T # {}
  BY <1>2
<1>4. PICK x \in T : \A y \in T : x <= y
  <2> HIDE DEF T
  <2> QED BY <1>3, LeastNat
<1>5. PICK r \in S : x = place(r)
  BY <1>4
<1>6. \A s \in S : place(r) <= place(s)
  BY <1>4, <1>5
<1>7. \A s \in S : ~Ahead(q, s, r)
  BY <1>1, <1>6, MaxTimeAssumption DEF Ahead
<1> QED BY <1>7

\* A set of pairs that puts a set in order.
Orders(order, S) ==
    /\ \A r \in S : <<r, r>> \notin order
    /\ \A r, s \in S : r # s => <<r, s>> \in order \/ <<s, r>> \in order
    /\ \A r, s, t \in S : <<r, s>> \in order /\ <<s, t>> \in order => <<r, t>> \in order

\* Sorted is the set as a sequence: each element once, in order.
LEMMA SortedFacts ==
    ASSUME NEW S, IsFiniteSet(S), NEW order, Orders(order, S)
    PROVE  LET list == Sorted(S, order)
           IN  /\ list \in Seq(S) /\ Len(list) = Cardinality(S) /\ Cardinality(S) \in Nat
               /\ \A r \in S : \E i \in 1..Len(list) : list[i] = r
               /\ \A i, j \in 1..Len(list) : i < j => <<list[i], list[j]>> \in order
<1> DEFINE n == Cardinality(S)
           below(r) == {s \in S : <<s, r>> \in order}
           rank == [r \in S |-> Cardinality(below(r))]
           list == Sorted(S, order)
<1>1. n \in Nat
  BY FS_CardinalityType
<1>2. ASSUME NEW r \in S, NEW s \in S, <<r, s>> \in order
      PROVE  Cardinality(below(r)) < Cardinality(below(s))
  <2>1. below(r) \in SUBSET below(s)
    BY <1>2 DEF Orders
  <2>2. r \in below(s) /\ r \notin below(r)
    BY <1>2 DEF Orders
  <2>3. IsFiniteSet(below(s)) /\ IsFiniteSet(below(r))
    BY FS_Subset
  <2> HIDE DEF below
  <2>4. /\ Cardinality(below(r)) <= Cardinality(below(s))
        /\ Cardinality(below(s)) = Cardinality(below(r)) => below(s) = below(r)
    BY <2>1, <2>3, FS_Subset
  <2>5. Cardinality(below(r)) \in Nat /\ Cardinality(below(s)) \in Nat
    BY <2>3, FS_CardinalityType
  <2> QED BY <2>2, <2>4, <2>5
<1>3. \A r \in S : rank[r] \in 0..(n - 1)
  <2> TAKE r \in S
  <2>1. below(r) \in SUBSET S /\ r \notin below(r)
    BY DEF Orders
  <2> HIDE DEF below
  <2>2. /\ IsFiniteSet(below(r)) /\ Cardinality(below(r)) <= n
        /\ n = Cardinality(below(r)) => S = below(r)
    BY <2>1, FS_Subset
  <2>3. Cardinality(below(r)) \in Nat
    BY <2>2, FS_CardinalityType
  <2>4. Cardinality(below(r)) # n
    BY <2>1, <2>2
  <2> QED BY <1>1, <2>2, <2>3, <2>4
<1>4. \A r, s \in S : <<r, s>> \in order => rank[r] < rank[s]
  BY <1>2
<1>5. \A r, s \in S : rank[r] = rank[s] => r = s
  <2> SUFFICES ASSUME NEW r \in S, NEW s \in S, r # s PROVE rank[r] # rank[s]
    OBVIOUS
  <2> HIDE DEF rank
  <2>1. <<r, s>> \in order \/ <<s, r>> \in order
    BY DEF Orders
  <2>2. rank[r] \in Int /\ rank[s] \in Int
    BY <1>1, <1>3
  <2> QED BY <1>4, <2>1, <2>2
<1>6. rank \in Injection(S, 0..(n - 1))
  <2>1. rank \in [S -> 0..(n - 1)]
    BY <1>3
  <2> HIDE DEF rank
  <2> QED BY <1>5, <2>1 DEF Injection, IsInjective
<1>7. IsFiniteSet(0..(n - 1)) /\ Cardinality(0..(n - 1)) = n
  BY <1>1, FS_Interval
<1>8. rank \in Surjection(S, 0..(n - 1))
  <2> HIDE DEF rank
  <2> QED BY <1>6, <1>7, FS_Injection
<1>9. \A i \in 1..n : \E r \in S : rank[r] = i - 1
  <2> HIDE DEF rank
  <2>1. \A t \in 0..(n - 1) : \E r \in S : rank[r] = t
    BY <1>8 DEF Surjection
  <2> QED BY <1>1, <2>1
<1>10. \A i \in 1..n : \E r \in S : Cardinality(below(r)) = i - 1
  BY <1>9
<1>11. /\ list = [i \in 1..n |-> CHOOSE r \in S : Cardinality(below(r)) = i - 1]
       /\ \A i \in 1..n : list[i] \in S /\ rank[list[i]] = i - 1
  <2>1. list = [i \in 1..n |-> CHOOSE r \in S : Cardinality(below(r)) = i - 1]
    BY DEF Sorted
  <2> HIDE DEF list, n, below
  <2>2. \A i \in 1..n : list[i] \in S /\ Cardinality(below(list[i])) = i - 1
    BY <1>10, <2>1
  <2> QED BY <2>1, <2>2
<1> HIDE DEF list, rank, n, below
<1>12. list \in Seq(S) /\ Len(list) = n
  <2>1. list \in [1..n -> S]
    BY <1>11
  <2> QED BY <1>1, <2>1
<1>13. \A r \in S : \E i \in 1..n : list[i] = r
  <2> TAKE r \in S
  <2>1. rank[r] + 1 \in 1..n
    BY <1>1, <1>3
  <2>2. rank[list[rank[r] + 1]] = rank[r] /\ list[rank[r] + 1] \in S
    BY <1>1, <1>3, <1>11, <2>1
  <2> QED BY <1>5, <2>1, <2>2
<1>14. \A i, j \in 1..n : i < j => <<list[i], list[j]>> \in order
  <2> SUFFICES ASSUME NEW i \in 1..n, NEW j \in 1..n, i < j PROVE <<list[i], list[j]>> \in order
    OBVIOUS
  <2>1. /\ list[i] \in S /\ list[j] \in S
        /\ rank[list[i]] = i - 1 /\ rank[list[j]] = j - 1
    BY <1>11
  <2>2. list[i] # list[j]
    BY <1>1, <2>1
  <2>3. CASE <<list[j], list[i]>> \in order
    BY <1>1, <1>4, <2>1, <2>3
  <2> QED BY <2>1, <2>2, <2>3 DEF Orders
<1> QED BY <1>1, <1>12, <1>13, <1>14 DEF list, n

-----------------------------------------------------------------------------
(* Iterators and pages.                                                    *)

\* The cursor is a key or there is none, and does not name a record to come.
LEMMA CursorFacts ==
    ASSUME TypeOK
    PROVE  /\ cursor # None => cursor \in Nat \X Nat
           /\ \A r \in Record : ToCome(r) => Key(r) # cursor
<1>1. \A r \in Record : Key(r) \in Nat \X Nat
  BY KeyFacts
<1>2. cursor # None => cursor \in Nat \X Nat
  BY <1>1, RecordsAssumption DEF TypeOK
<1>3. ASSUME NEW r \in Record, ToCome(r) PROVE Key(r) # cursor
  <2>1. Key(r) \in Nat \X Nat
    BY <1>1
  <2>2. CASE cursor = None
    BY <2>1, <2>2, NoneAssumption
  <2>3. CASE cursor # None
    <3>1. ~Precedes(cursor, cursor)
      BY <1>2, <2>3, PrecedesIsStrictOrder
    <3> QED BY <1>3, <2>3, <3>1 DEF ToCome
  <2> QED BY <2>2, <2>3
<1> QED BY <1>2, <1>3

\* The iterator of a query yields the records of the kind between the bounds
\* that are at the cursor or to come.
LEMMA QueryIterFacts ==
    ASSUME TypeOK, Shown, query \in Queries, NEW kind, NEW r \in db
    PROVE  r \in QueryIter(kind, query)
             <=> r.kind = kind /\ Within(query, r) /\ (Key(r) = cursor \/ ToCome(r))
<1> DEFINE lower == LowerClosedBound(Source, query.range.start)
           upper == UpperOpenBound(Source, query.range.end)
<1>1. r \in Record /\ Key(r) \in Nat \X Nat
  BY RecordsAssumption, KeyFacts DEF TypeOK
<1>2. lower \in Nat \X Nat /\ upper \in Nat \X Nat
  BY BoundFacts, SourceAssumption, MaxTimeAssumption
<1>3. CASE cursor = None
  <2>1. r \in QueryIter(kind, query) <=> r.kind = kind /\ Within(query, r)
    BY <1>3 DEF QueryIter, BoundaryIter, Within
  <2> QED BY <1>3, <2>1 DEF ToCome
<1>4. CASE cursor # None
  <2>1. PICK c \in Records : Within(query, c) /\ cursor = Key(c)
    BY <1>4 DEF Shown, Selected
  <2>2. cursor \in Nat \X Nat
    BY <1>4, CursorFacts
  <2>3. ~Precedes(cursor, lower) /\ ~Precedes(upper, cursor)
    BY <2>1 DEF Within
  <2> HIDE DEF lower, upper
  <2>4. ~Precedes(Key(r), cursor) => ~Precedes(Key(r), lower)
    BY <1>1, <1>2, <2>2, <2>3, PrecedesIsStrictOrder
  <2>5. ~Precedes(cursor, Key(r)) => ~Precedes(upper, Key(r))
    BY <1>1, <1>2, <2>2, <2>3, PrecedesIsStrictOrder
  <2>6. ~Precedes(Key(r), cursor) <=> Key(r) = cursor \/ Precedes(cursor, Key(r))
    BY <1>1, <2>2, PrecedesIsStrictOrder
  <2>7. ~Precedes(cursor, Key(r)) <=> Key(r) = cursor \/ Precedes(Key(r), cursor)
    BY <1>1, <2>2, PrecedesIsStrictOrder
  <2>8. Within(query, r) <=> ~Precedes(Key(r), lower) /\ ~Precedes(upper, Key(r))
    BY DEF Within, lower, upper
  <2>9. CASE query.forward
    <3>1. r \in QueryIter(kind, query)
            <=> r.kind = kind /\ ~Precedes(Key(r), cursor) /\ ~Precedes(upper, Key(r))
      BY <1>4, <2>9 DEF QueryIter, BoundaryIter, upper
    <3> QED BY <1>4, <2>4, <2>6, <2>8, <2>9, <3>1 DEF ToCome
  <2>10. CASE ~query.forward
    <3>1. r \in QueryIter(kind, query)
            <=> r.kind = kind /\ ~Precedes(Key(r), lower) /\ ~Precedes(cursor, Key(r))
      BY <1>4, <2>10 DEF QueryIter, BoundaryIter, lower
    <3> QED BY <1>4, <2>5, <2>7, <2>8, <2>10, <3>1 DEF ToCome
  <2> QED BY <2>9, <2>10
<1> QED BY <1>3, <1>4

\* Of an iterator that begins at the cursor what is left is to come, but for
\* a record at the cursor that cannot be read.
LEMMA SkipCursorFacts ==
    ASSUME TypeOK, query \in Queries, NEW items \in SUBSET Record,
           \A r \in items : Key(r) = cursor \/ ToCome(r),
           NEW r \in items
    PROVE  r \in SkipCursor(items) <=> ToCome(r) \/ r \in Invalid
<1>1. ASSUME r \notin Invalid, ~ToCome(r) PROVE r \notin SkipCursor(items)
  <2>1. Key(r) = cursor /\ cursor # None
    BY <1>1 DEF ToCome
  <2>2. cursor \in Nat \X Nat
    BY <2>1, CursorFacts
  <2>3. ASSUME NEW s \in items PROVE ~Before(query.forward, s, r)
    <3>1. Key(s) \in Nat \X Nat
      BY KeyFacts
    <3>2. Key(s) = cursor \/ IF query.forward THEN Precedes(cursor, Key(s)) ELSE Precedes(Key(s), cursor)
      BY <2>1 DEF ToCome
    <3>3. /\ ~(Precedes(cursor, Key(s)) /\ Precedes(Key(s), cursor))
          /\ ~Precedes(cursor, cursor)
      BY <2>2, <3>1, PrecedesIsStrictOrder
    <3> QED BY <2>1, <3>2, <3>3 DEF Before
  <2> QED BY <1>1, <2>1, <2>3 DEF SkipCursor
<1>2. ASSUME ToCome(r) \/ r \in Invalid PROVE r \in SkipCursor(items)
  <2>1. ToCome(r) => Key(r) # cursor
    BY CursorFacts
  <2> QED BY <1>2, <2>1 DEF SkipCursor
<1> QED BY <1>1, <1>2

\* The list is the beginning of the set, in the order of the walk; more says
\* that it may not be all.
Begins(list, S, more) ==
    /\ list \in Seq(S)
    /\ \A i, j \in 1..Len(list) :
          i < j => list[i] # list[j] /\ ~Ahead(query, list[j], list[i])
    /\ \A r \in S : \/ \E i \in 1..Len(list) : list[i] = r
                    \/ more /\ \A i \in 1..Len(list) : ~Ahead(query, r, list[i])

\* collect_records takes the first of the records that pass the filter, and
\* at least one if it says that there is more.
LEMMA CollectRecordsFacts ==
    ASSUME query \in Queries, NEW items \in SUBSET Record, IsFiniteSet(items),
           NEW kind, \A r \in items : r.kind = kind /\ Within(query, r),
           NEW n \in Nat
    PROVE  LET result == CollectRecords(items, n)
           IN  /\ Begins(result.edges, Passed(items), result.more)
               /\ result.more /\ n > 0 => result.edges # <<>>
<1> DEFINE B(r, s) == Before(query.forward, r, s)
           upTo(r) == {s \in Passed(items) : ~B(r, s)}
           stops == {r \in items \ Invalid : Cardinality(upTo(r)) = n}
           taken == {r \in items : \A s \in stops : ~B(s, r)}
           E == Passed(taken)
           list == Sorted(E, KeyOrder(E, query.forward))
<1>1. CollectRecords(items, n) = [edges |-> list, more |-> taken # items]
  BY DEF CollectRecords
<1>2. E \subseteq Passed(items) /\ E \subseteq taken /\ Passed(items) \subseteq items
      /\ stops \subseteq items /\ taken \subseteq items
  BY DEF Passed
<1>3. \A r, s \in items :
         /\ B(r, s) <=> Ahead(query, r, s)
         /\ Ahead(query, r, s) \/ Ahead(query, s, r) \/ r = s
         /\ ~(Ahead(query, r, s) /\ Ahead(query, s, r))
  BY OrderWithin
<1>4. \A r, s, t \in items : Ahead(query, r, s) /\ Ahead(query, s, t) => Ahead(query, r, t)
  <2>1. \A r \in items : r.time \in Nat
    BY WithinFacts
  <2> QED BY <2>1 DEF Ahead
<1>5. \A r \in Passed(items) : r \in taken => r \in E
  BY DEF Passed
<1>6. IsFiniteSet(E)
  <2>1. E \in SUBSET items
    BY <1>2
  <2> HIDE DEF E
  <2> QED BY <2>1, FS_Subset
<1> DEFINE order == KeyOrder(E, query.forward)
<1>7. \A r, s \in E : <<r, s>> \in order <=> Ahead(query, r, s)
  <2>1. \A r, s \in E : <<r, s>> \in order <=> B(r, s)
    <3> HIDE DEF E
    <3> QED BY DEF KeyOrder
  <2> HIDE DEF E, order, B
  <2> QED BY <1>2, <1>3, <2>1
<1> HIDE DEF B, stops, taken, E, order, list
<1>8. Orders(order, E)
  BY <1>2, <1>3, <1>4, <1>7 DEF Orders
<1>9. /\ list \in Seq(E)
      /\ \A r \in E : \E i \in 1..Len(list) : list[i] = r
      /\ \A i, j \in 1..Len(list) : i < j => <<list[i], list[j]>> \in order
  BY <1>6, <1>8, SortedFacts DEF list, order
<1>10. Len(list) \in Nat /\ \A i \in 1..Len(list) : list[i] \in E
  BY <1>9
<1>11. \A i, j \in 1..Len(list) : i < j => list[i] # list[j] /\ ~Ahead(query, list[j], list[i])
  <2> SUFFICES ASSUME NEW i \in 1..Len(list), NEW j \in 1..Len(list), i < j
               PROVE  list[i] # list[j] /\ ~Ahead(query, list[j], list[i])
    OBVIOUS
  <2>1. list[i] \in E /\ list[j] \in E /\ Ahead(query, list[i], list[j])
    BY <1>7, <1>9, <1>10
  <2> QED BY <1>2, <1>3, <2>1
<1>12. ASSUME NEW r \in Passed(items), r \notin E
       PROVE  taken # items /\ \A i \in 1..Len(list) : ~Ahead(query, r, list[i])
  <2>1. r \notin taken /\ r \in items
    BY <1>2, <1>5, <1>12
  <2>2. PICK s \in stops : B(s, r)
    BY <2>1 DEF taken
  <2>3. ASSUME NEW i \in 1..Len(list) PROVE ~Ahead(query, r, list[i])
    <3>1. list[i] \in taken /\ list[i] \in items
      BY <1>2, <1>10
    <3>2. ~B(s, list[i])
      BY <3>1 DEF taken
    <3> QED BY <1>2, <1>3, <1>4, <2>1, <2>2, <3>1, <3>2
  <2> QED BY <2>1, <2>3
<1>13. list \in Seq(Passed(items))
  BY <1>2, <1>9
<1>14. Begins(list, Passed(items), taken # items)
  BY <1>9, <1>11, <1>12, <1>13 DEF Begins
<1>15. ASSUME taken # items, n > 0 PROVE list # <<>>
  <2>1. stops # {}
    BY <1>2, <1>15 DEF taken
  <2>2. stops \in SUBSET Record /\ \A r \in stops : Within(query, r)
    BY <1>2
  <2>3. PICK s \in stops : \A t \in stops : ~Ahead(query, t, s)
    BY <2>1, <2>2, OneComesFirst
  <2>4. Cardinality(upTo(s)) = n /\ s \in items
    BY <1>2, <2>3 DEF stops
  <2>5. upTo(s) # {}
    <3>1. PICK U : U = upTo(s)
      OBVIOUS
    <3>2. Cardinality(U) = n
      BY <2>4, <3>1
    <3>3. Cardinality({}) = 0
      BY FS_EmptySet
    <3>4. U # {}
      BY <1>15, <3>2, <3>3
    <3> QED BY <3>1, <3>4
  <2>6. PICK e \in Passed(items) : ~B(s, e)
    BY <2>5
  <2>7. e \in items
    BY <1>2
  <2>8. \A t \in stops : ~B(t, e)
    BY <1>2, <1>3, <1>4, <2>3, <2>4, <2>6, <2>7
  <2>9. e \in E
    BY <1>5, <2>7, <2>8 DEF taken
  <2>10. PICK i \in 1..Len(list) : list[i] = e
    BY <1>9, <2>9
  <2> QED BY <2>10
<1>16. CollectRecords(items, n).edges = list /\ CollectRecords(items, n).more = (taken # items)
  BY <1>1
<1> QED BY <1>14, <1>15, <1>16

\* The least and the greatest of two numbers.
LEMMA MinMaxFacts ==
    ASSUME NEW a \in Int, NEW b \in Int
    PROVE  /\ Min({a, b}) = (IF a <= b THEN a ELSE b)
           /\ Max({a, b}) = (IF a >= b THEN a ELSE b)
<1>1. \E x \in {a, b} : \A y \in {a, b} : x <= y
  OBVIOUS
<1>2. Min({a, b}) \in {a, b} /\ \A y \in {a, b} : Min({a, b}) <= y
  BY <1>1 DEF Min
<1>3. \E x \in {a, b} : \A y \in {a, b} : x >= y
  OBVIOUS
<1>4. Max({a, b}) \in {a, b} /\ \A y \in {a, b} : Max({a, b}) >= y
  BY <1>3 DEF Max
<1> QED BY <1>2, <1>4

\* How many edges a merged page takes of those there are.
LEMMA PageLength ==
    ASSUME NEW n \in Nat, NEW l \in Nat, NEW k, k = Min({Max({n, 1}), l})
    PROVE  k \in Nat /\ k <= l /\ (k < l => k > 0)
<1>1. Max({n, 1}) = IF n >= 1 THEN n ELSE 1
  BY MinMaxFacts
<1>2. PICK m \in Int : m = Max({n, 1}) /\ m >= 1
  BY <1>1
<1>3. Min({m, l}) = IF m <= l THEN m ELSE l
  BY <1>2, MinMaxFacts
<1> QED BY <1>2, <1>3

\* What a number of iterators have still to yield.
Merges(all, lists) == all = UNION Range(lists)

\* network_connection takes the first of what the iterators yield, and at
\* least one if it says that there is more.
LEMMA NetworkConnectionFacts ==
    ASSUME query \in Queries, NEW lists, NEW all \in SUBSET Record, Merges(all, lists),
           IsFiniteSet(all), \A r \in all : Within(query, r), NEW n \in Nat
    PROVE  LET result == NetworkConnection(lists, n, query.forward)
           IN  /\ Begins(result.edges, all, result.more)
               /\ result.more => result.edges # <<>>
<1> DEFINE order == MergeOrder(all, query.forward)
           merged == Sorted(all, order)
           k == Min({Max({n, 1}), Len(merged)})
           edges == SubSeq(merged, 1, k)
<1>1. /\ NetworkConnection(lists, n, query.forward).edges = edges
      /\ NetworkConnection(lists, n, query.forward).more = (k < Len(merged))
  BY DEF NetworkConnection, Merges
<1>2. \A r \in all : KindRank(r) \in Int /\ Kinds[KindRank(r)] = r.kind
  <2> TAKE r \in all
  <2>1. \E i \in DOMAIN Kinds : Kinds[i] = r.kind
    BY DEF Record, KindSet, Range
  <2>2. KindRank(r) \in DOMAIN Kinds /\ Kinds[KindRank(r)] = r.kind
    BY <2>1 DEF KindRank
  <2>3. DOMAIN Kinds \subseteq Int
    BY KindsAssumption
  <2> QED BY <2>2, <2>3
<1>3. \A r \in all : r.time \in Nat
  BY WithinFacts
<1>4. \A r, s \in all : <<r, s>> \in order
         <=> Ahead(query, r, s) \/ (r.time = s.time /\ KindRank(r) < KindRank(s))
  BY <1>3 DEF MergeOrder, Earlier, Ahead
<1>5. \A r, s \in all : r.time = s.time /\ KindRank(r) = KindRank(s) => r = s
  BY <1>2, OrderWithin
<1> HIDE DEF order, merged, k, edges
<1>6. Orders(order, all)
  <2>1. \A r \in all : <<r, r>> \notin order
    BY <1>2, <1>3, <1>4 DEF Ahead
  <2>2. \A r, s \in all : r # s => <<r, s>> \in order \/ <<s, r>> \in order
    BY <1>2, <1>3, <1>4, <1>5 DEF Ahead
  <2>3. \A r, s, t \in all : <<r, s>> \in order /\ <<s, t>> \in order => <<r, t>> \in order
    BY <1>2, <1>3, <1>4 DEF Ahead
  <2> QED BY <2>1, <2>2, <2>3 DEF Orders
<1>7. /\ merged \in Seq(all) /\ Len(merged) \in Nat
      /\ \A r \in all : \E i \in 1..Len(merged) : merged[i] = r
      /\ \A i, j \in 1..Len(merged) : i < j => <<merged[i], merged[j]>> \in order
  <2>1. /\ merged \in Seq(all) /\ Len(merged) = Cardinality(all) /\ Cardinality(all) \in Nat
        /\ \A r \in all : \E i \in 1..Len(merged) : merged[i] = r
        /\ \A i, j \in 1..Len(merged) : i < j => <<merged[i], merged[j]>> \in order
    BY <1>6, SortedFacts DEF merged
  <2> QED BY <2>1
<1>8. /\ k \in Nat /\ k <= Len(merged) /\ (k < Len(merged) => k > 0)
  BY <1>7, PageLength DEF k
<1>9. /\ edges \in Seq(all) /\ Len(edges) = k
      /\ \A i \in 1..k : edges[i] = merged[i]
  BY <1>7, <1>8 DEF edges
<1>10. \A i, j \in 1..Len(merged) :
          i < j => merged[i] # merged[j] /\ ~Ahead(query, merged[j], merged[i])
  <2> SUFFICES ASSUME NEW i \in 1..Len(merged), NEW j \in 1..Len(merged), i < j
               PROVE  merged[i] # merged[j] /\ ~Ahead(query, merged[j], merged[i])
    OBVIOUS
  <2>1. merged[i] \in all /\ merged[j] \in all
    BY <1>7
  <2>2. <<merged[i], merged[j]>> \in order
    BY <1>7
  <2> QED BY <1>2, <1>3, <1>4, <2>1, <2>2 DEF Ahead
<1>11. ASSUME NEW r \in all, ~\E i \in 1..k : edges[i] = r
       PROVE  k < Len(merged) /\ \A i \in 1..k : ~Ahead(query, r, edges[i])
  <2>1. PICK j \in 1..Len(merged) : merged[j] = r
    BY <1>7
  <2>2. ~(j <= k)
    BY <1>8, <1>9, <1>11, <2>1
  <2>3. k < Len(merged)
    BY <1>7, <1>8, <2>2
  <2>4. ASSUME NEW i \in 1..k PROVE ~Ahead(query, r, edges[i])
    <3>1. i \in 1..Len(merged) /\ i < j
      BY <1>7, <1>8, <2>2
    <3>2. ~Ahead(query, merged[j], merged[i])
      BY <1>10, <3>1
    <3> QED BY <1>9, <2>1, <3>2
  <2> QED BY <2>3, <2>4
<1>12. \A i, j \in 1..k : i < j => edges[i] # edges[j] /\ ~Ahead(query, edges[j], edges[i])
  <2> SUFFICES ASSUME NEW i \in 1..k, NEW j \in 1..k, i < j
               PROVE  edges[i] # edges[j] /\ ~Ahead(query, edges[j], edges[i])
    OBVIOUS
  <2>1. i \in 1..Len(merged) /\ j \in 1..Len(merged)
    BY <1>7, <1>8
  <2>2. merged[i] # merged[j] /\ ~Ahead(query, merged[j], merged[i])
    BY <1>10, <2>1
  <2> QED BY <1>9, <2>2
<1>13. Begins(edges, all, k < Len(merged))
  BY <1>9, <1>11, <1>12 DEF Begins
<1>14. k < Len(merged) => edges # <<>>
  BY <1>8, <1>9
<1> QED BY <1>1, <1>13, <1>14

\* The edges of a page as a list in the order of time.
Listed(edges) == IF query.forward THEN edges ELSE Reverse(edges)

\* The edge whose key is the next cursor.
Edge(list) == IF query.forward THEN Last(list) ELSE Head(list)

\* A page in the order of time, and the edge at its end.
LEMMA ListedFacts ==
    ASSUME query \in Queries, NEW S \in SUBSET Records, NEW edges, NEW more,
           Begins(edges, S, more), \A r \in S : Within(query, r),
           NEW list, list = Listed(edges)
    PROVE  /\ list \in Seq(S) /\ Len(list) \in Nat /\ Len(list) = Len(edges)
           /\ \A i, j \in 1..Len(list) :
                 i < j => list[i] # list[j] /\ list[i].time <= list[j].time
           /\ \A r : (\E i \in 1..Len(list) : list[i] = r)
                       <=> (\E i \in 1..Len(edges) : edges[i] = r)
           /\ list # <<>> => /\ \E i \in 1..Len(list) : list[i] = Edge(list)
                             /\ \A i \in 1..Len(list) : ~Ahead(query, Edge(list), list[i])
<1>1. /\ edges \in Seq(S) /\ Len(edges) \in Nat
      /\ \A i \in 1..Len(edges) : edges[i] \in S
  BY DEF Begins
<1>2. \A r \in S : r.time \in Nat
  BY RecordsAssumption, WithinFacts
<1>3. \A i, j \in 1..Len(edges) : i < j => edges[i] # edges[j] /\ ~Ahead(query, edges[j], edges[i])
  BY DEF Begins
<1>4. CASE query.forward
  <2>1. list = edges
    BY <1>4 DEF Listed
  <2>2. \A i, j \in 1..Len(edges) : i < j => edges[i].time <= edges[j].time
    BY <1>1, <1>2, <1>3, <1>4 DEF Ahead
  <2>3. ASSUME list # <<>>
        PROVE  /\ \E i \in 1..Len(list) : list[i] = Edge(list)
               /\ \A i \in 1..Len(list) : ~Ahead(query, Edge(list), list[i])
    <3>1. Len(edges) \in 1..Len(edges) /\ Edge(list) = edges[Len(edges)]
      BY <1>1, <1>4, <2>1, <2>3 DEF Edge, Last
    <3>2. \A i \in 1..Len(edges) : edges[i].time <= edges[Len(edges)].time
      BY <1>1, <1>2, <2>2, <3>1
    <3>3. \A i \in 1..Len(edges) : ~Ahead(query, edges[Len(edges)], edges[i])
      BY <1>1, <1>2, <1>4, <3>1, <3>2 DEF Ahead
    <3> QED BY <2>1, <3>1, <3>3
  <2> QED BY <1>1, <1>3, <2>1, <2>2, <2>3
<1>5. CASE ~query.forward
  <2> DEFINE n == Len(edges)
  <2>1. list = [i \in 1..n |-> edges[(n - i) + 1]]
    BY <1>5 DEF Listed, Reverse
  <2>2. \A i \in 1..n : (n - i) + 1 \in 1..n /\ n - ((n - i) + 1) + 1 = i
    BY <1>1
  <2>3. list \in Seq(S) /\ Len(list) = n /\ \A i \in 1..n : list[i] = edges[(n - i) + 1]
    <3>1. list \in [1..n -> S]
      BY <1>1, <2>1, <2>2
    <3> QED BY <1>1, <2>1, <3>1
  <2> HIDE DEF n
  <2>4. ASSUME NEW i \in 1..n, NEW j \in 1..n, i < j
        PROVE  list[i] # list[j] /\ list[i].time <= list[j].time
    <3>1. PICK a \in 1..n, b \in 1..n : a = (n - i) + 1 /\ b = (n - j) + 1
      BY <2>2
    <3>2. b < a /\ list[i] = edges[a] /\ list[j] = edges[b]
      <4>1. n \in Nat
        BY <1>1 DEF n
      <4>2. b < a
        BY <2>4, <3>1, <4>1
      <4> QED BY <2>3, <3>1, <4>2
    <3>3. edges[a] # edges[b] /\ ~Ahead(query, edges[a], edges[b])
      BY <1>3, <3>2 DEF n
    <3>4. edges[a].time \in Nat /\ edges[b].time \in Nat
      BY <1>1, <1>2 DEF n
    <3> QED BY <1>5, <3>2, <3>3, <3>4 DEF Ahead
  <2>5. \A r : (\E i \in 1..n : list[i] = r) <=> (\E i \in 1..n : edges[i] = r)
    <3> TAKE r
    <3>1. ASSUME NEW i \in 1..n, list[i] = r PROVE \E j \in 1..n : edges[j] = r
      BY <2>2, <2>3, <3>1
    <3>2. ASSUME NEW i \in 1..n, edges[i] = r PROVE \E j \in 1..n : list[j] = r
      <4>1. list[(n - i) + 1] = r
        BY <2>2, <2>3, <3>2
      <4> QED BY <2>2, <4>1
    <3> QED BY <3>1, <3>2
  <2>6. ASSUME list # <<>>
        PROVE  /\ \E i \in 1..n : list[i] = Edge(list)
               /\ \A i \in 1..n : ~Ahead(query, Edge(list), list[i])
    <3>1. 1 \in 1..n /\ Edge(list) = list[1]
      BY <1>1, <1>5, <2>3, <2>6 DEF Edge, n
    <3>2. \A i \in 1..n : list[i] \in S
      BY <2>3
    <3>3. \A i \in 1..n : list[1].time <= list[i].time
      BY <1>1, <1>2, <2>4, <3>1, <3>2 DEF n
    <3>4. \A i \in 1..n : ~Ahead(query, list[1], list[i])
      BY <1>1, <1>2, <1>5, <3>1, <3>2, <3>3 DEF Ahead, n
    <3> QED BY <3>1, <3>4
  <2> QED BY <1>1, <2>3, <2>4, <2>5, <2>6 DEF n
<1> QED BY <1>4, <1>5

-----------------------------------------------------------------------------
(* A page comes back.                                                      *)

OnList(r, list) == \E i \in 1..Len(list) : list[i] = r

InTime(list) ==
    \A i, j \in 1..Len(list) : i < j => list[i] # list[j] /\ list[i].time <= list[j].time

\* The elements of a list.
LEMMA RangeFacts ==
    ASSUME NEW S, NEW list \in Seq(S), NEW r
    PROVE  r \in Range(list) <=> OnList(r, list)
BY DEF Range, OnList

\* Two lists of which the one ends before the other begins.
LEMMA ConcatFacts ==
    ASSUME NEW a \in Seq(Records), NEW b \in Seq(Records), InTime(a), InTime(b),
           \A i \in 1..Len(a), j \in 1..Len(b) : a[i] # b[j] /\ a[i].time <= b[j].time,
           NEW s, s = a \o b
    PROVE  /\ s \in Seq(Records) /\ InTime(s)
           /\ \A r : OnList(r, s) <=> OnList(r, a) \/ OnList(r, b)
<1> DEFINE m == Len(a)  n == Len(b)
<1>1. m \in Nat /\ n \in Nat
  OBVIOUS
<1>2. /\ s \in Seq(Records) /\ Len(s) = m + n
      /\ \A i \in 1..(m + n) : s[i] = IF i <= m THEN a[i] ELSE b[i - m]
  BY ConcatProperties
<1> HIDE DEF m, n
<1>3. \A i \in 1..m : i \in 1..(m + n) /\ s[i] = a[i]
  BY <1>1, <1>2
<1>4. \A j \in 1..n : j + m \in 1..(m + n) /\ s[j + m] = b[j]
  <2> TAKE j \in 1..n
  <2>1. j + m \in 1..(m + n) /\ ~(j + m <= m) /\ (j + m) - m = j
    BY <1>1
  <2> QED BY <1>2, <2>1
<1>5. \A i \in 1..(m + n) : i \in 1..m \/ (i > m /\ i - m \in 1..n /\ s[i] = b[i - m])
  <2> TAKE i \in 1..(m + n)
  <2>1. i \in 1..m \/ (i > m /\ i - m \in 1..n /\ ~(i <= m))
    BY <1>1
  <2> QED BY <1>2, <2>1
<1>6. InTime(s)
  <2> SUFFICES ASSUME NEW i \in 1..(m + n), NEW j \in 1..(m + n), i < j
               PROVE  s[i] # s[j] /\ s[i].time <= s[j].time
    BY <1>2 DEF InTime
  <2>1. CASE j \in 1..m
    <3>1. i \in 1..m
      BY <1>1, <2>1
    <3> QED BY <1>3, <2>1, <3>1 DEF InTime, m
  <2>2. CASE i \in 1..m /\ j > m
    <3>1. j - m \in 1..n /\ s[j] = b[j - m]
      <4>1. ~(j \in 1..m)
        BY <1>1, <2>2
      <4> QED BY <1>5, <4>1
    <3> QED BY <1>3, <2>2, <3>1 DEF m, n
  <2>3. CASE i > m
    <3>1. j > m /\ i - m \in 1..n /\ j - m \in 1..n /\ i - m < j - m
      BY <1>1, <2>3
    <3>2. s[i] = b[i - m] /\ s[j] = b[j - m]
      <4>1. ~(i \in 1..m) /\ ~(j \in 1..m)
        BY <1>1, <2>3, <3>1
      <4> QED BY <1>5, <4>1
    <3>3. PICK x \in 1..n, y \in 1..n : x = i - m /\ y = j - m /\ x < y
      BY <3>1
    <3>4. b[x] # b[y] /\ b[x].time <= b[y].time
      BY <3>3 DEF InTime, n
    <3> QED BY <3>2, <3>3, <3>4
  <2>4. j \in 1..m \/ (i \in 1..m /\ j > m) \/ i > m
    BY <1>1
  <2> QED BY <2>1, <2>2, <2>3, <2>4
<1>7. \A r : OnList(r, s) <=> OnList(r, a) \/ OnList(r, b)
  <2> TAKE r
  <2>1. ASSUME OnList(r, s) PROVE OnList(r, a) \/ OnList(r, b)
    <3>1. PICK i \in 1..(m + n) : s[i] = r
      BY <1>2, <2>1 DEF OnList
    <3> QED BY <1>3, <1>5, <3>1 DEF OnList, m, n
  <2>2. ASSUME OnList(r, a) PROVE OnList(r, s)
    BY <1>2, <1>3, <2>2 DEF OnList, m
  <2>3. ASSUME OnList(r, b) PROVE OnList(r, s)
    <3>1. PICK j \in 1..n : b[j] = r
      BY <2>3 DEF OnList, n
    <3> QED BY <1>2, <1>4, <3>1 DEF OnList
  <2> QED BY <2>1, <2>2, <2>3
<1> QED BY <1>2, <1>6, <1>7

\* A record is to come if it is beyond the record of the cursor.
LEMMA ToComeFacts ==
    ASSUME query \in Queries, NEW c \in Record, NEW r \in Record,
           Within(query, c), Within(query, r), NEW k, k = Key(c)
    PROVE  /\ k # None
           /\ (IF query.forward THEN Precedes(k, Key(r)) ELSE Precedes(Key(r), k))
                <=> Ahead(query, c, r)
<1>1. Key(c) \in Nat \X Nat
  BY KeyFacts
<1>2. Before(query.forward, c, r) <=> Ahead(query, c, r)
  BY OrderWithin
<1> QED BY <1>1, <1>2, NoneAssumption DEF Before

\* An answer of which the edges are the first of those to come, and all of
\* them if there is no more, keeps the invariant and moves the cursor.
LEMMA AnswerFacts ==
    ASSUME IInv, walk # "idle", NEW result, Answer(result), query' = query, kept' = kept,
           NEW S \in SUBSET Records, Begins(result.edges, S, result.more),
           \A r \in S : Selected(query, r) /\ ToCome(r),
           \A r \in kept : Selected(query, r) /\ ToCome(r)
                             => r \in S \/ (query.kind = None /\ Blocked(r))
    PROVE  /\ page' \in Seq(Records) /\ seen' \in Seq(Records)
           /\ cursor' \in {Key(r) : r \in Records} \cup {None}
           /\ Shown' /\ WalkOrdered' /\ Complete'
           /\ result.edges # <<>> => cursor' # None /\ Farther
<1> DEFINE list == Listed(result.edges)
           c == Edge(list)
<1>1. query \in Queries /\ TypeOK /\ Shown /\ WalkOrdered /\ Complete
  BY DEF IInv, Types
<1>2. seen \in Seq(Records) /\ kept \subseteq Records /\ Records \subseteq Record
  BY <1>1, RecordsAssumption DEF TypeOK
<1>3. /\ page' = list
      /\ seen' = (IF query.forward THEN seen \o list ELSE list \o seen)
      /\ cursor' = (IF list = <<>> THEN cursor ELSE Key(c))
      /\ walk' = (IF result.more THEN "ask" ELSE "done")
  BY DEF Answer, Listed, Edge
<1>4. \A r \in S : Within(query, r)
  BY DEF Selected
<1>5. /\ list \in Seq(S) /\ Len(list) \in Nat /\ Len(list) = Len(result.edges)
      /\ InTime(list)
      /\ \A r : OnList(r, list) <=> OnList(r, result.edges)
      /\ list # <<>> => OnList(c, list) /\ \A i \in 1..Len(list) : ~Ahead(query, c, list[i])
  <2> HIDE DEF list
  <2>1. /\ list \in Seq(S) /\ Len(list) \in Nat /\ Len(list) = Len(result.edges)
        /\ \A i, j \in 1..Len(list) :
              i < j => list[i] # list[j] /\ list[i].time <= list[j].time
        /\ \A r : (\E i \in 1..Len(list) : list[i] = r)
                    <=> (\E i \in 1..Len(result.edges) : result.edges[i] = r)
        /\ list # <<>> => /\ \E i \in 1..Len(list) : list[i] = Edge(list)
                          /\ \A i \in 1..Len(list) : ~Ahead(query, Edge(list), list[i])
    BY <1>1, <1>4, ListedFacts DEF list
  <2> QED BY <2>1 DEF InTime, OnList
<1> HIDE DEF list, c
<1>6. list \in Seq(Records) /\ \A i \in 1..Len(list) : list[i] \in S
  BY <1>5
<1>7. \A r \in Records : Selected(query, r) => r \in Record /\ Within(query, r) /\ r.time \in Nat
  BY <1>1, <1>2, WithinFacts DEF Selected
<1>8. ASSUME cursor # None
      PROVE  \E d \in Records : /\ Selected(query, d) /\ cursor = Key(d)
                                /\ \A r \in Records : Selected(query, r) =>
                                      (ToCome(r) <=> Ahead(query, d, r))
  <2>1. PICK d \in Records : Selected(query, d) /\ cursor = Key(d)
    BY <1>1, <1>8 DEF Shown
  <2>2. ASSUME NEW r \in Records, Selected(query, r) PROVE ToCome(r) <=> Ahead(query, d, r)
    <3>1. (IF query.forward THEN Precedes(cursor, Key(r)) ELSE Precedes(Key(r), cursor))
            <=> Ahead(query, d, r)
      BY <1>1, <1>7, <2>1, <2>2, ToComeFacts
    <3> QED BY <1>8, <3>1 DEF ToCome
  <2> QED BY <2>1, <2>2
<1>9. \A i \in 1..Len(seen) : seen[i] \in Records /\ Selected(query, seen[i]) /\ ~ToCome(seen[i])
  BY <1>1, <1>2 DEF Shown
<1>10. ASSUME NEW i \in 1..Len(seen), NEW j \in 1..Len(list)
       PROVE  /\ seen[i] # list[j] /\ ~Ahead(query, list[j], seen[i])
              /\ IF query.forward THEN seen[i].time <= list[j].time
                                  ELSE list[j].time <= seen[i].time
  <2>1. cursor # None
    BY <1>9 DEF ToCome
  <2>2. PICK d \in Records : /\ Selected(query, d)
                             /\ \A r \in Records : Selected(query, r) =>
                                   (ToCome(r) <=> Ahead(query, d, r))
    BY <1>8, <2>1
  <2>3. PICK r \in Records : r = seen[i] /\ Selected(query, r) /\ ~Ahead(query, d, r)
    BY <1>9, <2>2
  <2>4. PICK s \in Records : s = list[j] /\ Selected(query, s) /\ Ahead(query, d, s)
    BY <1>6, <2>2
  <2>5. d.time \in Nat /\ r.time \in Nat /\ s.time \in Nat
    BY <1>7, <2>2, <2>3, <2>4
  <2>6. r # s /\ ~Ahead(query, s, r)
        /\ IF query.forward THEN r.time <= s.time ELSE s.time <= r.time
    BY <2>3, <2>4, <2>5 DEF Ahead
  <2> QED BY <2>3, <2>4, <2>6
<1>11. /\ seen' \in Seq(Records) /\ InTime(seen')
       /\ \A r : OnList(r, seen') <=> OnList(r, seen) \/ OnList(r, list)
  <2>1. InTime(seen)
    BY <1>1 DEF WalkOrdered, InTime
  <2>2. CASE query.forward
    <3>1. seen' = seen \o list
      BY <1>3, <2>2
    <3>2. \A i \in 1..Len(seen), j \in 1..Len(list) :
             seen[i] # list[j] /\ seen[i].time <= list[j].time
      BY <1>10, <2>2
    <3> QED BY <1>2, <1>5, <1>6, <2>1, <3>1, <3>2, ConcatFacts
  <2>3. CASE ~query.forward
    <3>1. seen' = list \o seen
      BY <1>3, <2>3
    <3>2. \A j \in 1..Len(list), i \in 1..Len(seen) :
             list[j] # seen[i] /\ list[j].time <= seen[i].time
      BY <1>10, <2>3
    <3> QED BY <1>2, <1>5, <1>6, <2>1, <3>1, <3>2, ConcatFacts
  <2> QED BY <2>2, <2>3
<1>12. WalkOrdered'
  BY <1>11 DEF WalkOrdered, InTime
<1>13. ASSUME list # <<>>
       PROVE  /\ c \in S /\ c \in Records /\ Selected(query, c) /\ cursor' = Key(c)
              /\ \A r \in Records : Selected(query, r) => (ToCome(r)' <=> Ahead(query, c, r))
  <2>1. c \in S /\ c \in Records /\ Selected(query, c) /\ cursor' = Key(c)
    BY <1>3, <1>5, <1>6, <1>13 DEF OnList
  <2>2. ASSUME NEW r \in Records, Selected(query, r) PROVE ToCome(r)' <=> Ahead(query, c, r)
    <3>1. /\ cursor' # None
          /\ (IF query.forward THEN Precedes(cursor', Key(r)) ELSE Precedes(Key(r), cursor'))
               <=> Ahead(query, c, r)
      BY <1>1, <1>7, <2>1, <2>2, ToComeFacts
    <3> QED BY <3>1 DEF ToCome
  <2> QED BY <2>1, <2>2
<1>14. ASSUME list = <<>>
       PROVE  /\ cursor' = cursor /\ \A r : ToCome(r)' <=> ToCome(r)
              /\ \A r : ~OnList(r, list)
  BY <1>3, <1>14 DEF ToCome, OnList
<1>15. \A r \in Records : OnList(r, seen') => Selected(query, r) /\ ~ToCome(r)'
  <2> SUFFICES ASSUME NEW r \in Records, OnList(r, seen') PROVE Selected(query, r) /\ ~ToCome(r)'
    OBVIOUS
  <2>1. CASE list = <<>>
    <3>1. OnList(r, seen)
      BY <1>11, <1>14, <2>1
    <3> QED BY <1>9, <1>14, <2>1, <3>1 DEF OnList
  <2>2. CASE list # <<>>
    <3>1. CASE OnList(r, list)
      <4>1. r \in S /\ ~Ahead(query, c, r)
        BY <1>5, <1>6, <2>2, <3>1 DEF OnList
      <4> QED BY <1>13, <2>2, <4>1
    <3>2. CASE OnList(r, seen)
      <4>1. PICK i \in 1..Len(seen) : seen[i] = r
        BY <3>2 DEF OnList
      <4>2. PICK j \in 1..Len(list) : list[j] = c
        BY <1>5, <2>2 DEF OnList
      <4>3. Selected(query, r) /\ ~Ahead(query, c, r)
        BY <1>9, <1>10, <4>1, <4>2
      <4> QED BY <1>13, <2>2, <4>3
    <3> QED BY <1>11, <3>1, <3>2
  <2> QED BY <2>1, <2>2
<1>16. Shown'
  <2>1. cursor' # None => \E d \in Records : Selected(query, d) /\ cursor' = Key(d)
    BY <1>1, <1>13, <1>14 DEF Shown
  <2>2. \A i \in 1..Len(seen') : Selected(query, seen'[i]) /\ ~ToCome(seen[i])'
    <3> TAKE i \in 1..Len(seen')
    <3>1. PICK r \in Records : r = seen'[i]
      BY <1>11
    <3>2. Selected(query, r) /\ ~ToCome(r)'
      BY <1>15, <3>1 DEF OnList
    <3> QED BY <3>1, <3>2 DEF ToCome
  <2> QED BY <2>1, <2>2 DEF Shown, Selected, Within
<1>17. Complete'
  <2> SUFFICES ASSUME NEW r \in kept, Selected(query, r), walk' = "done" \/ ~ToCome(r)'
               PROVE  OnList(r, seen') \/ (query.kind = None /\ (Twin(r)' \/ Blocked(r)))
    <3>1. \A r : r \in Range(seen') <=> OnList(r, seen')
      BY <1>11, RangeFacts
    <3> QED BY <3>1 DEF Complete, Excused, Blocked, Selected, Within
  <2>1. r \in Records
    BY <1>2
  <2>2. CASE ~ToCome(r)
    <3>1. r \in Range(seen) \/ Excused(r)
      BY <1>1, <2>2 DEF Complete
    <3>2. Twin(r) => Twin(r)'
      <4>1. \A s : s \in Range(seen) => s \in Range(seen')
        BY <1>2, <1>11, RangeFacts
      <4> QED BY <4>1 DEF Twin
    <3>3. r \in Range(seen) => OnList(r, seen')
      BY <1>2, <1>11, RangeFacts
    <3> QED BY <3>1, <3>2, <3>3 DEF Excused
  <2>3. CASE ToCome(r)
    <3>1. r \in S \/ (query.kind = None /\ Blocked(r))
      BY <2>3
    <3>2. CASE OnList(r, result.edges)
      BY <1>5, <1>11, <3>2
    <3>3. CASE r \in S /\ ~OnList(r, result.edges)
      <4>1. result.more /\ \A i \in 1..Len(result.edges) : ~Ahead(query, r, result.edges[i])
        BY <3>3 DEF Begins, OnList
      <4>2. ~ToCome(r)'
        BY <1>3, <4>1
      <4>3. list # <<>>
        BY <1>14, <2>3, <4>2
      <4>4. ~Ahead(query, c, r)
        BY <1>13, <2>1, <4>2, <4>3
      <4>5. OnList(c, result.edges)
        BY <1>5, <4>3
      <4>6. ~Ahead(query, r, c)
        BY <4>1, <4>5 DEF OnList
      <4>7. c \in Record /\ r \in Record /\ Within(query, c) /\ Within(query, r)
        BY <1>7, <1>13, <2>1, <4>3
      <4>8. /\ Key(c) = Key(r)
            /\ c.kind = r.kind => c = r
        BY <1>1, <4>4, <4>6, <4>7, OrderWithin
      <4>9. c.kind # r.kind
        BY <3>3, <4>5, <4>8
      <4>10. query.kind = None
        BY <1>13, <4>3, <4>9 DEF Selected
      <4>11. Twin(r)'
        <5>1. c \in Range(seen')
          BY <1>5, <1>11, <4>3, RangeFacts
        <5> QED BY <4>8, <5>1 DEF Twin
      <4> QED BY <4>10, <4>11
    <3> QED BY <3>1, <3>2, <3>3
  <2> QED BY <2>2, <2>3
<1>18. ASSUME result.edges # <<>> PROVE cursor' # None /\ Farther
  <2>1. list # <<>>
    <3>1. Len(result.edges) # 0
      BY <1>18 DEF Begins
    <3> QED BY <1>5, <3>1
  <2>2. c \in Record /\ Within(query, c) /\ cursor' = Key(c) /\ ToCome(c)
    BY <1>7, <1>13, <2>1
  <2>3. cursor' # None
    BY <2>2, KeyFacts, NoneAssumption
  <2> QED BY <2>2, <2>3 DEF Farther, ToCome
<1>19. cursor' \in {Key(r) : r \in Records} \cup {None}
  BY <1>1, <1>13, <1>14 DEF TypeOK
<1> QED BY <1>3, <1>6, <1>11, <1>12, <1>16, <1>17, <1>18, <1>19

-----------------------------------------------------------------------------
(* The steps.                                                              *)

\* What get_connection has to choose from.
LEMMA GetConnectionItems ==
    ASSUME IInv, walk = "get", NEW items, items = SkipCursor(QueryIter(query.kind, query))
    PROVE  /\ items \in SUBSET db /\ items \in SUBSET Record /\ IsFiniteSet(items)
           /\ \A r \in items : r.kind = query.kind /\ Within(query, r)
           /\ \A r \in Passed(items) : Selected(query, r) /\ ToCome(r)
           /\ \A r \in kept : Selected(query, r) /\ ToCome(r) => r \in Passed(items)
<1> DEFINE all == QueryIter(query.kind, query)
<1>1. /\ query \in Queries /\ query.kind # None /\ TypeOK /\ Shown
      /\ IsFiniteSet(db) /\ db \in SUBSET Record /\ kept \subseteq db
  BY RecordsAssumption DEF IInv, Types, TypeOK
<1>2. all \in SUBSET db
  BY DEF QueryIter, BoundaryIter
<1>3. \A r \in db : r \in all <=> /\ r.kind = query.kind /\ Within(query, r)
                                  /\ Key(r) = cursor \/ ToCome(r)
  BY <1>1, QueryIterFacts
<1> HIDE DEF all
<1>4. items \subseteq all /\ \A r \in all : r \in items <=> ToCome(r) \/ r \in Invalid
  <2>1. items = SkipCursor(all)
    BY DEF all
  <2>2. all \in SUBSET Record /\ \A r \in all : Key(r) = cursor \/ ToCome(r)
    BY <1>1, <1>2, <1>3
  <2>3. \A r \in all : r \in SkipCursor(all) <=> ToCome(r) \/ r \in Invalid
    BY <1>1, <2>2, SkipCursorFacts
  <2>4. SkipCursor(all) \subseteq all
    BY DEF SkipCursor
  <2> QED BY <2>1, <2>3, <2>4
<1>5. items \in SUBSET db /\ items \in SUBSET Record
  BY <1>1, <1>2, <1>4
<1>6. IsFiniteSet(items)
  BY <1>1, <1>5, FS_Subset
<1>7. \A r \in items : r.kind = query.kind /\ Within(query, r)
  BY <1>2, <1>3, <1>4
<1>8. \A r \in Passed(items) : Selected(query, r) /\ ToCome(r)
  BY <1>4, <1>7 DEF Passed, Selected
<1>9. \A r \in kept : Selected(query, r) /\ ToCome(r) => r \in Passed(items)
  BY <1>1, <1>2, <1>3, <1>4 DEF Passed, Selected
<1> QED BY <1>5, <1>6, <1>7, <1>8, <1>9

\* What an iterator of a merged page yields.
LEMMA OpenIterItems ==
    ASSUME IInv, walk = "open", NEW kind,
           NEW items, items = SkipCursor(FilteredIter(QueryIter(kind, query)))
    PROVE  /\ items \in SUBSET db /\ items \in SUBSET Records /\ IsFiniteSet(items)
           /\ \A r \in items : r.kind = kind /\ Selected(query, r) /\ ToCome(r)
           /\ \A r \in kept : r.kind = kind /\ Selected(query, r) /\ ToCome(r)
                                => r \in items \/ Blocked(r)
<1> DEFINE all == QueryIter(kind, query)
           good == FilteredIter(all)
<1>1. /\ query \in Queries /\ query.kind = None /\ TypeOK /\ Shown
      /\ IsFiniteSet(db) /\ db \in SUBSET Record /\ kept \subseteq db /\ db \subseteq Records
  BY RecordsAssumption DEF IInv, Types, TypeOK
<1>2. all \in SUBSET db
  BY DEF QueryIter, BoundaryIter
<1>3. \A r \in db : r \in all <=> /\ r.kind = kind /\ Within(query, r)
                                  /\ Key(r) = cursor \/ ToCome(r)
  BY <1>1, QueryIterFacts
<1> HIDE DEF all
<1>4. \A r, s \in all : /\ Before(query.forward, r, s) <=> Ahead(query, r, s)
                        /\ Ahead(query, r, s) \/ Ahead(query, s, r) \/ r = s
                        /\ ~Ahead(query, r, r)
  BY <1>1, <1>2, <1>3, OrderWithin
<1>5. /\ good \subseteq all
      /\ \A r \in all : r \in good <=> r \in Passing /\ \A s \in all \cap Invalid : Ahead(query, r, s)
  BY <1>4 DEF FilteredIter
<1>6. \A r \in good : r \notin Invalid /\ r \in Passing
  BY <1>4, <1>5
<1> HIDE DEF good
<1>7. items \subseteq good /\ \A r \in good : r \in items <=> ToCome(r)
  <2>1. items = SkipCursor(good)
    BY DEF good, all
  <2>2. good \in SUBSET Record /\ \A r \in good : Key(r) = cursor \/ ToCome(r)
    BY <1>1, <1>2, <1>3, <1>5
  <2>3. \A r \in good : r \in SkipCursor(good) <=> ToCome(r) \/ r \in Invalid
    BY <1>1, <2>2, SkipCursorFacts
  <2>4. SkipCursor(good) \subseteq good
    BY DEF SkipCursor
  <2> QED BY <1>6, <2>1, <2>3, <2>4
<1>8. items \in SUBSET db /\ items \in SUBSET Records
  BY <1>1, <1>2, <1>5, <1>7
<1>9. IsFiniteSet(items)
  BY <1>1, <1>8, FS_Subset
<1>10. \A r \in items : r.kind = kind /\ Selected(query, r) /\ ToCome(r)
  BY <1>1, <1>2, <1>3, <1>5, <1>6, <1>7 DEF Selected
<1>11. ASSUME NEW r \in kept, r.kind = kind, Selected(query, r), ToCome(r), r \notin items
       PROVE  Blocked(r)
  <2>1. r \in all /\ r \in Passing /\ r \notin Invalid
    BY <1>1, <1>3, <1>11 DEF Selected
  <2>2. r \notin good
    BY <1>7, <1>11
  <2>3. PICK s \in all \cap Invalid : ~Ahead(query, r, s)
    BY <1>5, <2>1, <2>2
  <2>4. Ahead(query, s, r)
    BY <1>4, <2>1, <2>3
  <2>5. s \in db /\ s \in Record /\ s.kind = kind /\ Within(query, s) /\ r \in Record
    BY <1>1, <1>2, <1>3
  <2>6. s.source = Source /\ s.time \in Nat /\ r.time \in Nat
    BY <1>1, <1>11, <2>5, WithinFacts DEF Selected
  <2> QED BY <1>11, <2>3, <2>4, <2>5, <2>6 DEF Blocked, Ahead
<1> QED BY <1>8, <1>9, <1>10, <1>11

\* What the invariant says survives a step that leaves the walk alone, as
\* long as no record is kept that was not.
LEMMA WalkUnchanged ==
    ASSUME IInv, UNCHANGED <<query, cursor, iters, seen>>, kept' \subseteq kept,
           walk # "idle" \/ walk' = "idle", walk' = "done" => walk = "done"
    PROVE  Shown' /\ WalkOrdered' /\ Yields' /\ Complete'
<1>1. Shown /\ WalkOrdered /\ Yields /\ Complete
  BY DEF IInv
<1>2. Shown'
  BY <1>1 DEF Shown, Selected, Within, ToCome
<1>3. WalkOrdered'
  BY <1>1 DEF WalkOrdered
<1>4. Yields'
  <2> SUFFICES ASSUME NEW i \in 1..Len(iters)
               PROVE  /\ \A r \in iters[i] : Selected(query, r) /\ ToCome(r)
                      /\ \A r \in kept' : r.kind = Kinds[i] /\ Selected(query, r) /\ ToCome(r)
                                            => r \in iters[i] \/ Blocked(r)
    BY DEF Yields, Selected, Within, ToCome, Blocked
  <2> QED BY <1>1 DEF Yields
<1>5. Complete'
  <2> SUFFICES ASSUME walk' # "idle", NEW r \in kept', Selected(query, r),
                      walk' = "done" \/ ~ToCome(r)
               PROVE  r \in Range(seen) \/ Excused(r)
    BY DEF Complete, Selected, Within, ToCome, Excused, Twin, Blocked
  <2> QED BY <1>1 DEF Complete
<1> QED BY <1>2, <1>3, <1>4, <1>5

\* get_connection keeps the invariant, and a page with more to come moves the
\* cursor.
LEMMA GetConnectionStep ==
    ASSUME IInv, GetConnection
    PROVE  IInv' /\ (walk' = "ask" /\ size > 0 => cursor' # None /\ Farther)
<1>0. Types /\ TypeOK
  BY DEF IInv, Types
<1> DEFINE items == SkipCursor(QueryIter(query.kind, query))
           result == CollectRecords(items, size)
<1>1. /\ walk = "get" /\ Answer(result) /\ iters = <<>>
      /\ UNCHANGED <<db, query, size, iters, kept>>
  BY <1>0 DEF GetConnection, Types
<1>2. /\ items \in SUBSET db /\ items \in SUBSET Record /\ IsFiniteSet(items)
      /\ \A r \in items : r.kind = query.kind /\ Within(query, r)
      /\ \A r \in Passed(items) : Selected(query, r) /\ ToCome(r)
      /\ \A r \in kept : Selected(query, r) /\ ToCome(r) => r \in Passed(items)
  BY <1>1, GetConnectionItems
<1> HIDE DEF items
<1>3. /\ Begins(result.edges, Passed(items), result.more)
      /\ result.more /\ size > 0 => result.edges # <<>>
  BY <1>0, <1>1, <1>2, CollectRecordsFacts DEF Types, TypeOK
<1>4. Passed(items) \in SUBSET Records
  BY <1>0, <1>2 DEF Passed, TypeOK
<1> HIDE DEF result
<1>5. /\ page' \in Seq(Records) /\ seen' \in Seq(Records)
      /\ cursor' \in {Key(r) : r \in Records} \cup {None}
      /\ Shown' /\ WalkOrdered' /\ Complete'
      /\ result.edges # <<>> => cursor' # None /\ Farther
  BY <1>1, <1>2, <1>3, <1>4, AnswerFacts
<1>6. walk' = (IF result.more THEN "ask" ELSE "done")
  BY <1>1 DEF Answer
<1>7. Types'
  BY <1>0, <1>1, <1>5, <1>6 DEF Types, TypeOK
<1>8. Yields'
  BY <1>1 DEF Yields
<1> QED BY <1>3, <1>5, <1>6, <1>7, <1>8 DEF IInv

\* So does network_connection, whatever the size.
LEMMA GetNetworkConnectionStep ==
    ASSUME IInv, GetNetworkConnection
    PROVE  IInv' /\ (walk' = "ask" => cursor' # None /\ Farther)
<1>0. Types /\ TypeOK
  BY DEF IInv, Types
<1> DEFINE all == UNION Range(iters)
           result == NetworkConnection(iters, size, query.forward)
<1>1. /\ walk = "open" /\ Len(iters) = Len(Kinds) /\ Answer(result) /\ iters' = <<>>
      /\ UNCHANGED <<db, query, size, kept>>
  BY DEF GetNetworkConnection
<1>2. query \in Queries /\ query.kind = None /\ size \in Nat /\ IsFiniteSet(all)
  BY <1>0, <1>1 DEF Types, TypeOK
<1>3. \A r : r \in all <=> \E i \in 1..Len(iters) : r \in iters[i]
  BY <1>0 DEF TypeOK, Range
<1>4. all \in SUBSET Records /\ \A r \in all : Selected(query, r) /\ ToCome(r)
  <2>1. \A i \in 1..Len(iters) : iters[i] \in SUBSET Records
    BY <1>0 DEF TypeOK
  <2> HIDE DEF all
  <2>2. \A r \in all : r \in Records /\ Selected(query, r) /\ ToCome(r)
    BY <1>3, <2>1 DEF IInv, Yields
  <2> QED BY <2>2
<1>5. ASSUME NEW r \in kept, Selected(query, r), ToCome(r)
      PROVE  r \in all \/ (query.kind = None /\ Blocked(r))
  <2>1. r \in Record
    BY <1>0, RecordsAssumption DEF TypeOK
  <2>2. PICK i \in DOMAIN Kinds : Kinds[i] = r.kind
    BY <2>1 DEF Record, KindSet, Range
  <2>3. i \in 1..Len(iters)
    BY <1>1, <2>2, KindsAssumption
  <2>4. r \in iters[i] \/ Blocked(r)
    BY <1>5, <2>2, <2>3 DEF IInv, Yields
  <2> HIDE DEF all
  <2> QED BY <1>2, <1>3, <2>3, <2>4
<1>6. /\ Begins(result.edges, all, result.more)
      /\ result.more => result.edges # <<>>
  <2>1. PICK S : S = all
    OBVIOUS
  <2>2. Merges(S, iters)
    BY <2>1 DEF Merges
  <2>3. S \in SUBSET Record /\ IsFiniteSet(S) /\ \A r \in S : Within(query, r)
    BY <1>2, <1>4, <2>1, RecordsAssumption DEF Selected
  <2> HIDE DEF all
  <2>4. /\ Begins(result.edges, S, result.more)
        /\ result.more => result.edges # <<>>
    BY <1>2, <2>2, <2>3, NetworkConnectionFacts
  <2> QED BY <2>1, <2>4
<1> HIDE DEF result, all
<1>7. /\ page' \in Seq(Records) /\ seen' \in Seq(Records)
      /\ cursor' \in {Key(r) : r \in Records} \cup {None}
      /\ Shown' /\ WalkOrdered' /\ Complete'
      /\ result.edges # <<>> => cursor' # None /\ Farther
  BY <1>1, <1>4, <1>5, <1>6, AnswerFacts
<1>8. walk' = (IF result.more THEN "ask" ELSE "done")
  BY <1>1 DEF Answer
<1>9. IsFiniteSet(UNION Range(iters'))
  <2>1. UNION Range(<<>>) = {}
    BY DEF Range
  <2> QED BY <1>1, <2>1, FS_EmptySet
<1>10. Types'
  <2>1. TypeOK'
    BY <1>0, <1>1, <1>7, <1>8, KindsAssumption DEF TypeOK
  <2> QED BY <1>0, <1>1, <1>2, <1>8, <1>9, <2>1 DEF Types
<1>11. Yields'
  BY <1>1 DEF Yields
<1> QED BY <1>6, <1>7, <1>8, <1>10, <1>11 DEF IInv

\* Every step keeps the invariant.
LEMMA Step ==
    ASSUME IInv, [Next]_vars
    PROVE  IInv'
<1>1. Types /\ TypeOK /\ IsFiniteSet(db)
  BY DEF IInv, Types
<1>2. \A n \in Sizes : PageSize(n) \in Nat
  <2> TAKE n \in Sizes
  <2>1. CASE n = None
    BY <2>1, MaximumAssumption DEF PageSize
  <2>2. CASE n # None
    BY <2>2, SizesAssumption, MaximumAssumption, MinMaxFacts DEF PageSize
  <2> QED BY <2>1, <2>2
<1>3. ASSUME NEW q \in Queries, Begin(q) PROVE IInv'
  <2>1. /\ walk' = "ask" /\ query' = q /\ kept' = db /\ db' = db /\ size' = size
        /\ cursor' = None /\ seen' = <<>> /\ iters' = <<>> /\ page' = page
    BY <1>1, <1>3 DEF Begin, Types
  <2>2. Types'
    <3>1. UNION Range(iters') = UNION Range(iters)
      BY <1>1, <1>3 DEF Begin, Types
    <3>2. TypeOK'
      BY <1>1, <2>1 DEF TypeOK
    <3> QED BY <1>1, <2>1, <3>1, <3>2 DEF Types
  <2>3. Shown' /\ WalkOrdered' /\ Yields' /\ Complete'
    BY <2>1 DEF Shown, WalkOrdered, Yields, Complete, ToCome
  <2> QED BY <2>2, <2>3 DEF IInv
<1>4. ASSUME NEW n \in Sizes, Ask(n) PROVE IInv'
  <2>1. /\ walk = "ask" /\ walk' = (IF query.kind = None THEN "open" ELSE "get")
        /\ size' = PageSize(n)
        /\ UNCHANGED <<db, query, cursor, iters, page, seen, kept>>
    BY <1>4 DEF Ask
  <2>2. Types'
    BY <1>1, <1>2, <2>1 DEF Types, TypeOK
  <2>3. Shown' /\ WalkOrdered' /\ Yields' /\ Complete'
    BY <2>1, WalkUnchanged
  <2> QED BY <2>2, <2>3 DEF IInv
<1>5. ASSUME GetConnection PROVE IInv'
  BY <1>5, GetConnectionStep
<1>6. ASSUME OpenIter PROVE IInv'
  <2> DEFINE kind == Kinds[Len(iters) + 1]
             items == SkipCursor(FilteredIter(QueryIter(kind, query)))
             n == Len(iters)
  <2>1. /\ walk = "open" /\ n < Len(Kinds) /\ iters' = Append(iters, items)
        /\ UNCHANGED <<db, walk, query, size, cursor, page, seen, kept>>
    BY <1>6 DEF OpenIter
  <2>2. /\ items \in SUBSET db /\ items \in SUBSET Records /\ IsFiniteSet(items)
        /\ \A r \in items : r.kind = kind /\ Selected(query, r) /\ ToCome(r)
        /\ \A r \in kept : r.kind = kind /\ Selected(query, r) /\ ToCome(r)
                             => r \in items \/ Blocked(r)
    BY <2>1, OpenIterItems
  <2> HIDE DEF items
  <2>3. iters \in Seq(SUBSET Records) /\ n \in Nat /\ Len(Kinds) \in Nat
    BY <1>1, KindsAssumption DEF TypeOK
  <2>4. /\ iters' \in Seq(SUBSET Records) /\ Len(iters') = n + 1
        /\ \A i \in 1..n : iters'[i] = iters[i]
        /\ iters'[n + 1] = items
    BY <2>1, <2>2, <2>3
  <2>5. IsFiniteSet(UNION Range(iters'))
    <3>1. UNION Range(iters') \subseteq (UNION Range(iters)) \cup items
      <4> SUFFICES ASSUME NEW i \in 1..(n + 1)
                   PROVE  iters'[i] \subseteq (UNION Range(iters)) \cup items
        BY <2>4 DEF Range
      <4>1. CASE i \in 1..n
        BY <2>3, <2>4, <4>1 DEF Range
      <4>2. CASE i = n + 1
        BY <2>4, <4>2
      <4> QED BY <2>3, <4>1, <4>2
    <3>2. IsFiniteSet(UNION Range(iters))
      BY <1>1 DEF Types
    <3>3. IsFiniteSet((UNION Range(iters)) \cup items)
      BY <2>2, <3>2, FS_Union
    <3> QED BY <3>1, <3>3, FS_Subset
  <2>6. \A i \in 1..(n + 1) : \A r \in iters'[i] : r.kind = Kinds[i]
    <3>1. \A i \in 1..n : \A r \in iters[i] : r.kind = Kinds[i]
      BY <1>1, <2>3 DEF TypeOK
    <3>2. \A r \in iters'[n + 1] : r.kind = Kinds[n + 1]
      BY <2>2, <2>4
    <3> QED BY <2>3, <2>4, <3>1, <3>2
  <2>7. TypeOK'
    <3>1. Len(iters') <= Len(Kinds)
      BY <2>1, <2>3, <2>4
    <3>2. DOMAIN iters' = 1..(n + 1)
      BY <2>4
    <3> HIDE DEF n
    <3> QED BY <1>1, <2>1, <2>4, <2>6, <3>1, <3>2 DEF TypeOK
  <2>8. Types'
    BY <1>1, <2>1, <2>5, <2>7 DEF Types
  <2>9. Shown' /\ WalkOrdered' /\ Complete'
    BY <2>1 DEF IInv, Shown, WalkOrdered, Complete, Selected, Within, ToCome, Excused, Twin, Blocked
  <2>10. Yields'
    <3> SUFFICES ASSUME NEW i \in 1..(n + 1)
                 PROVE  /\ \A r \in iters'[i] : Selected(query, r) /\ ToCome(r)
                        /\ \A r \in kept : r.kind = Kinds[i] /\ Selected(query, r) /\ ToCome(r)
                                             => r \in iters'[i] \/ Blocked(r)
      BY <2>1, <2>4 DEF Yields, Selected, Within, ToCome, Blocked
    <3>1. CASE i \in 1..n
      BY <2>4, <3>1 DEF IInv, Yields
    <3>2. CASE i = n + 1
      BY <2>2, <2>4, <3>2
    <3> QED BY <2>3, <3>1, <3>2
  <2> QED BY <2>8, <2>9, <2>10 DEF IInv
<1>7. ASSUME GetNetworkConnection PROVE IInv'
  BY <1>7, GetNetworkConnectionStep
<1>8. ASSUME NEW r \in Records, Insert(r) PROVE IInv'
  <2>1. db' = db \cup {r} /\ UNCHANGED <<walk, query, size, cursor, iters, page, seen, kept>>
    BY <1>8 DEF Insert, walkVars
  <2>2. IsFiniteSet(db')
    BY <1>1, <2>1, FS_AddElement
  <2>3. TypeOK'
    BY <1>1, <2>1 DEF TypeOK
  <2>4. Types'
    BY <1>1, <2>1, <2>2, <2>3 DEF Types
  <2>5. Shown' /\ WalkOrdered' /\ Yields' /\ Complete'
    BY <2>1, WalkUnchanged
  <2> QED BY <2>4, <2>5 DEF IInv
<1>9. ASSUME NEW k, NEW s, NEW cut, Retain(k, s, cut) PROVE IInv'
  <2>1. PICK old : /\ db' = db \ old /\ kept' = kept \ old
                   /\ UNCHANGED <<walk, query, size, cursor, iters, page, seen>>
    BY <1>9 DEF Retain, walkVars
  <2>2. IsFiniteSet(db')
    BY <1>1, <2>1, FS_Subset
  <2>3. TypeOK'
    BY <1>1, <2>1 DEF TypeOK
  <2>4. Types'
    BY <1>1, <2>1, <2>2, <2>3 DEF Types
  <2>5. Shown' /\ WalkOrdered' /\ Yields' /\ Complete'
    BY <2>1, WalkUnchanged
  <2> QED BY <2>4, <2>5 DEF IInv
<1>10. CASE UNCHANGED vars
  <2>1. UNCHANGED <<db, walk, query, size, cursor, iters, page, seen, kept>>
    BY <1>10 DEF vars, walkVars
  <2>2. Types'
    BY <1>1, <2>1 DEF Types, TypeOK
  <2>3. Shown' /\ WalkOrdered' /\ Yields' /\ Complete'
    BY <2>1, WalkUnchanged
  <2> QED BY <2>2, <2>3 DEF IInv
<1> QED BY <1>3, <1>4, <1>5, <1>6, <1>7, <1>8, <1>9, <1>10 DEF Next, Serve

\* The invariant holds before the first walk.
LEMMA Start ==
    ASSUME Init
    PROVE  IInv
<1>1. UNION Range(iters) = {}
  BY DEF Init, Range
<1>2. TypeOK
  BY KindsAssumption DEF Init, TypeOK
<1>3. Types
  BY <1>1, <1>2, FS_EmptySet DEF Init, Types
<1> QED BY <1>3 DEF Init, IInv, Shown, WalkOrdered, Yields, Complete

-----------------------------------------------------------------------------
(* The theorems.                                                           *)

\* The inductive invariant holds, for every range and size a client may ask
\* for and whatever is stored and deleted meanwhile.
THEOREM Invariant == Spec => []IInv
BY Start, Step, PTL DEF Spec

\* Every variable keeps its type, and the iterator of a kind yields records
\* of that kind.
THEOREM TypeCorrect == Spec => []TypeOK
<1>1. IInv => TypeOK
  BY DEF IInv, Types
<1> QED BY <1>1, Invariant, PTL

\* get_connection and network_connection: in both directions a walk shows the
\* records in the order of time and none twice, whatever comes in between the
\* pages, for every range, size and number of kinds.
THEOREM WalksAreOrdered == Spec => []WalkOrdered
<1>1. IInv => WalkOrdered
  BY DEF IInv
<1> QED BY <1>1, Invariant, PTL

\* A walk over ranges after 1970 shows nothing but what was asked for.
THEOREM WalksShowWhatIsWanted == ASSUME AfterEpoch PROVE Spec => []OnlyWanted
<1>1. IInv => OnlyWanted
  <2> SUFFICES ASSUME IInv, NEW r \in Range(seen) PROVE Wanted(query, r)
    BY DEF OnlyWanted
  <2>1. seen \in Seq(Records) /\ Shown
    BY DEF IInv, Types, TypeOK
  <2>2. PICK i \in 1..Len(seen) : seen[i] = r
    BY <2>1 DEF Range
  <2>3. r \in Record /\ Selected(query, r)
    BY <2>1, <2>2, RecordsAssumption DEF Shown
  <2>4. query \in Queries
    <3>1. seen # <<>>
      BY <2>2
    <3> QED BY <3>1 DEF IInv, Types
  <2> QED BY <2>3, <2>4, SelectedIsWanted
<1> QED BY <1>1, Invariant, PTL

\* At its end a walk over one kind of event has shown every record asked for
\* that was there all the time, whatever came in or was deleted meanwhile, the
\* record of the cursor included.
THEOREM WalksAreComplete == ASSUME AfterEpoch PROVE Spec => []WalkComplete
<1>1. IInv => WalkComplete
  <2> SUFFICES ASSUME IInv, walk = "done", query.kind # None, NEW r \in kept, Wanted(query, r)
               PROVE  r \in Range(seen)
    BY DEF WalkComplete
  <2>1. query \in Queries /\ r \in Record /\ Complete
    BY RecordsAssumption DEF IInv, Types, TypeOK
  <2>2. Selected(query, r)
    BY <2>1, SelectedIsWanted
  <2> QED BY <2>1, <2>2 DEF Complete, Excused
<1> QED BY <1>1, Invariant, PTL

\* A merged walk misses a record only if a record of another kind with the
\* same key has been shown, or one of its own kind on the way to it cannot be
\* read.
THEOREM MergedWalksMissOnlyTwins == ASSUME AfterEpoch PROVE Spec => []MergedMissesOnlyTwins
<1>1. IInv => MergedMissesOnlyTwins
  <2> SUFFICES ASSUME IInv, walk = "done", NEW r \in kept, Wanted(query, r), r \notin Range(seen)
               PROVE  Twin(r) \/ Blocked(r)
    BY DEF MergedMissesOnlyTwins, Twin, Blocked
  <2>1. query \in Queries /\ r \in Record /\ Complete
    BY RecordsAssumption DEF IInv, Types, TypeOK
  <2>2. Selected(query, r)
    BY <2>1, SelectedIsWanted
  <2> QED BY <2>1, <2>2 DEF Complete, Excused
<1> QED BY <1>1, Invariant, PTL

\* The key of a record that was shown is not refused as a cursor.
LEMMA ShownIsAccepted ==
    ASSUME AfterEpoch, NEW q \in Queries, NEW c \in Record, Selected(q, c)
    PROVE  /\ ~Precedes(Key(c), LowerClosedBound(Source, q.range.start))
           /\ ~Precedes(UpperClosedBound(Source, q.range.end), Key(c))
<1>1. q.range \in Ranges /\ q.range.end \in Time \cup {None}
  BY RangesAssumption DEF Queries
<1>2. Within(q, c) /\ Wanted(q, c)
  BY SelectedIsWanted DEF Selected
<1>3. Key(c) = <<Source, c.time>> /\ c.time \in Nat /\ c.time <= MaxTime
  BY <1>2, WithinFacts
<1>4. ~Precedes(Key(c), LowerClosedBound(Source, q.range.start))
  BY <1>2 DEF Within
<1> DEFINE last == IF q.range.end = None THEN MaxTime ELSE q.range.end
<1>5. last \in Time /\ last \in Int /\ last >= 0 /\ c.time <= last
  BY <1>1, <1>2, <1>3, MaxTimeAssumption DEF AfterEpoch, Time, Wanted
<1>6. UpperClosedBound(Source, q.range.end) = <<Source, last>>
  BY <1>5, UnsignedFacts DEF UpperClosedBound, StorageKey
<1> HIDE DEF last
<1>7. ~Precedes(<<Source, last>>, <<Source, c.time>>)
  BY <1>3, <1>5, SourceAssumption DEF Precedes
<1> QED BY <1>3, <1>4, <1>6, <1>7

\* A page that is asked for has a size, if no page of size 0 is asked for.
Sized == walk = "get" => size > 0

\* Every page that says there is more moves the cursor on, strictly, and to a
\* key that is not refused: a walk over finitely many records comes to an end.
\* A page of size 0 is left out: it may stop at a record that does not pass
\* the filter, and has no edge then.
THEOREM CursorsAdvance == ASSUME AfterEpoch, 0 \notin Sizes PROVE Spec => CursorAdvances
<1>1. Init => Sized
  BY DEF Init, Sized
<1>2. Sized /\ [Next]_vars => Sized'
  <2> SUFFICES ASSUME Sized, [Next]_vars PROVE Sized'
    OBVIOUS
  <2>1. ASSUME NEW n \in Sizes PROVE PageSize(n) > 0
    <3>1. CASE n = None
      BY <3>1, MaximumAssumption DEF PageSize
    <3>2. CASE n # None
      BY <3>2, SizesAssumption, MaximumAssumption, MinMaxFacts DEF PageSize
    <3> QED BY <3>1, <3>2
  <2> QED BY <2>1 DEF Sized, Next, Serve, Begin, Ask, GetConnection, Answer, OpenIter,
                      GetNetworkConnection, Insert, Retain, vars, walkVars
<1>3. IInv /\ IInv' /\ Sized /\ [Next]_vars
        => [walk' = "ask" /\ walk \in {"get", "open"}
              => cursor' # None /\ Farther /\ CursorAccepted(query)']_vars
  <2> SUFFICES ASSUME IInv, IInv', Sized, Next, walk' = "ask", walk \in {"get", "open"}
               PROVE  cursor' # None /\ Farther /\ CursorAccepted(query)'
    OBVIOUS
  <2>1. GetConnection \/ GetNetworkConnection
    BY DEF Next, Serve, Begin, Ask, OpenIter, Insert, Retain, walkVars
  <2>2. query \in Queries /\ query' = query /\ kept' = kept
    BY <2>1 DEF IInv, Types, GetConnection, GetNetworkConnection
  <2>3. cursor' # None /\ Farther
    <3>1. CASE GetConnection
      BY <3>1, GetConnectionStep DEF Sized, GetConnection
    <3>2. CASE GetNetworkConnection
      BY <3>2, GetNetworkConnectionStep
    <3> QED BY <2>1, <3>1, <3>2
  <2>4. PICK c \in Records : Selected(query, c) /\ cursor' = Key(c)
    <3>1. \E c \in Records : Selected(query', c) /\ cursor' = Key(c)
      BY <2>3 DEF IInv, Shown, Selected, Within
    <3> QED BY <2>2, <3>1
  <2>5. c \in Record
    BY RecordsAssumption
  <2>6. /\ ~Precedes(cursor', LowerClosedBound(Source, query.range.start))
        /\ ~Precedes(UpperClosedBound(Source, query.range.end), cursor')
    BY <2>2, <2>4, <2>5, ShownIsAccepted
  <2> QED BY <2>2, <2>3, <2>6 DEF CursorAccepted
<1> QED BY <1>1, <1>2, <1>3, Invariant, PTL DEF Spec, CursorAdvances
=============================================================================
