--------------------------- MODULE MigrationProofs ---------------------------
(***************************************************************************)
(* Proofs about Migration, for any sets of records, any versions found at  *)
(* the start and any number of crashes.                                    *)
(***************************************************************************)
EXTENDS Migration, FiniteSetTheorems, SequenceTheorems, TLAPS

\* A set of naturals that is not empty has a least element: the order of the
\* naturals is well-founded.
LEMMA LeastNat ==
    ASSUME NEW T \in SUBSET Nat, T # {}
    PROVE  \E x \in T : \A y \in T : x <= y
<1> DEFINE R == {ss \in Nat \X Nat : ss[1] < ss[2]}
<1>1. IsWellFoundedOn(R, Nat)
  BY NatLessThanWellFounded DEF OpToRel
<1> HIDE DEF R
<1>2. PICK x \in T : \A y \in T : ~(<<y, x>> \in R)
  BY <1>1, WFMin
<1>3. \A m \in Nat, n \in Nat : n < m => <<n, m>> \in R
  BY DEF R
<1>4. \A y \in T : ~(y < x)
  BY <1>2, <1>3, Zenon
<1> QED BY <1>4

\* Max finds the greatest of the positions in a sequence.
LEMMA MaxFacts ==
    ASSUME NEW n \in Nat, NEW T \in SUBSET (1..n), T # {}
    PROVE  Max(T) \in T /\ \A j \in T : j <= Max(T)
<1> DEFINE U == {n - i : i \in T}
<1>1. U \in SUBSET Nat /\ U # {}
  <2>1. \A i \in T : n - i \in Nat
    OBVIOUS
  <2>2. \E i \in T : TRUE
    OBVIOUS
  <2> QED BY <2>1, <2>2
<1>2. PICK u \in U : \A v \in U : u <= v
  BY <1>1, LeastNat
<1>3. PICK m \in T : u = n - m
  BY <1>2
<1>4. \A j \in T : j <= m
  <2> TAKE j \in T
  <2>1. n - j \in U
    OBVIOUS
  <2> QED BY <1>2, <1>3, <2>1
<1>5. \E x \in T : \A j \in T : x >= j
  BY <1>4
<1>6. Max(T) \in T /\ \A j \in T : Max(T) >= j
  BY <1>5 DEF Max
<1> QED BY <1>6

\* The key that an iterator gives next is one of those it has still to give.
LEMMA FirstFacts ==
    ASSUME NEW T \in SUBSET Keys, T # {}
    PROVE  First(T) \in T
<1>1. \E x \in T : \A y \in T : x <= y
  BY LeastNat, KeysAssumption DEF Keys
<1> QED BY <1>1 DEF First
-----------------------------------------------------------------------------
(* What a reader of the database sees.                                     *)

Formats == {"none", "old", "made", "full"}

\* The states of the disk, and of the buffer: no write of this version puts a
\* record into an old format.
Disks == [Keys -> Formats]
Buffers == Seq(Keys \X {"none", "made", "full"})

\* A reader sees the last write that is still in the buffer, or the disk.
LEMMA ViewFacts ==
    ASSUME NEW d \in Disks, NEW b \in Buffers, NEW k \in Keys
    PROVE  /\ WritesOf(k, b) = {} => View(d, b)[k] = d[k]
           /\ \A i \in WritesOf(k, b) :
                 (\A j \in WritesOf(k, b) : j <= i) => View(d, b)[k] = b[i][2]
           /\ WritesOf(k, b) # {} =>
                 \E i \in WritesOf(k, b) :
                    View(d, b)[k] = b[i][2] /\ \A j \in WritesOf(k, b) : j <= i
<1> DEFINE W == WritesOf(k, b)
<1>1. Len(b) \in Nat /\ W \in SUBSET (1..Len(b))
  BY DEF Buffers, WritesOf
<1>2. View(d, b)[k] = IF W = {} THEN d[k] ELSE b[Max(W)][2]
  BY DEF View
<1> HIDE DEF W
<1>3. W # {} => Max(W) \in W /\ \A j \in W : j <= Max(W)
  BY <1>1, MaxFacts
<1>4. ASSUME NEW i \in W, \A j \in W : j <= i PROVE i = Max(W)
  <2>1. Max(W) \in W /\ Max(W) <= i /\ i <= Max(W)
    BY <1>3, <1>4
  <2>2. \A x \in W : x \in Nat
    BY <1>1
  <2>3. Max(W) \in Nat /\ i \in Nat
    BY <2>1, <2>2
  <2> QED BY <2>1, <2>3
<1> QED BY <1>2, <1>3, <1>4 DEF W

\* A record is seen in an old format only if it is so on the disk and nothing
\* has been written over it.
LEMMA ViewOld ==
    ASSUME NEW d \in Disks, NEW b \in Buffers, NEW k \in Keys
    PROVE  View(d, b)[k] = "old" <=> (d[k] = "old" /\ WritesOf(k, b) = {})
<1>1. \A i \in WritesOf(k, b) : b[i][2] # "old"
  BY DEF Buffers, WritesOf
<1> QED BY <1>1, ViewFacts

\* A record is seen with its own values only if the disk or a write has them.
LEMMA ViewFull ==
    ASSUME NEW d \in Disks, NEW b \in Buffers, NEW k \in Keys, d[k] # "full",
           \A i \in 1..Len(b) : b[i][2] # "full"
    PROVE  View(d, b)[k] # "full"
BY ViewFacts DEF WritesOf

\* The view is one of the whole database.
LEMMA ViewType ==
    ASSUME NEW d \in Disks, NEW b \in Buffers
    PROVE  View(d, b) \in Disks
<1>1. ASSUME NEW k \in Keys PROVE View(d, b)[k] \in Formats
  <2>1. d[k] \in Formats /\ \A i \in WritesOf(k, b) : b[i][2] \in Formats
    BY DEF Disks, Buffers, WritesOf, Formats
  <2> QED BY <2>1, ViewFacts
<1> QED BY <1>1 DEF View, Disks

\* A write is seen at once, and changes nothing else.
LEMMA ViewAppend ==
    ASSUME NEW d \in Disks, NEW b \in Buffers, NEW c \in Buffers, NEW k \in Keys, NEW value,
           Len(c) = Len(b) + 1, c[Len(b) + 1] = <<k, value>>, \A i \in 1..Len(b) : c[i] = b[i]
    PROVE  /\ View(d, c)[k] = value
           /\ \A l \in Keys \ {k} : View(d, c)[l] = View(d, b)[l]
<1> DEFINE n == Len(b)
<1>1. n \in Nat
  BY DEF Buffers
<1>2. View(d, c)[k] = value
  <2>1. n + 1 \in WritesOf(k, c) /\ \A j \in WritesOf(k, c) : j <= n + 1
    BY <1>1 DEF WritesOf
  <2>2. View(d, c)[k] = c[n + 1][2]
    BY <1>1, <2>1, ViewFacts
  <2> QED BY <1>1, <2>2
<1>3. ASSUME NEW l \in Keys \ {k} PROVE View(d, c)[l] = View(d, b)[l]
  <2>1. WritesOf(l, c) = WritesOf(l, b)
    BY <1>1 DEF WritesOf
  <2>2. \A i \in WritesOf(l, b) : c[i] = b[i]
    BY <1>1 DEF WritesOf
  <2>3. CASE WritesOf(l, b) = {}
    BY <1>1, <2>1, <2>3, ViewFacts
  <2>4. CASE WritesOf(l, b) # {}
    <3>1. PICK i \in WritesOf(l, b) : View(d, b)[l] = b[i][2] /\ \A j \in WritesOf(l, b) : j <= i
      BY <2>4, ViewFacts
    <3>2. View(d, c)[l] = c[i][2]
      BY <1>1, <2>1, <3>1, ViewFacts
    <3> QED BY <2>2, <3>1, <3>2
  <2> QED BY <2>3, <2>4
<1> QED BY <1>1, <1>2, <1>3

\* With an empty buffer a reader sees the disk.
LEMMA ViewEmpty ==
    ASSUME NEW d \in Disks
    PROVE  View(d, <<>>) = d
<1>1. <<>> \in Buffers /\ \A k \in Keys : WritesOf(k, <<>>) = {}
  BY DEF Buffers, WritesOf
<1>2. \A k \in Keys : View(d, <<>>)[k] = d[k]
  BY <1>1, ViewFacts
<1> QED BY <1>2 DEF View, Disks

\* What a reader sees does not change when the beginning of the buffer goes
\* to the disk.
LEMMA ViewSpill ==
    ASSUME NEW d \in Disks, NEW b \in Buffers, b # <<>>
    PROVE  /\ Put(d, Head(b)) \in Disks /\ Tail(b) \in Buffers
           /\ Head(b)[1] \in Keys /\ Put(d, Head(b))[Head(b)[1]] # "old"
           /\ \A k \in Keys \ {Head(b)[1]} : Put(d, Head(b))[k] = d[k]
           /\ View(Put(d, Head(b)), Tail(b)) = View(d, b)
<1> DEFINE h == Head(b)  c == Tail(b)  e == Put(d, h)
<1>1. /\ Len(b) \in Nat /\ 1 <= Len(b) /\ h = b[1] /\ c \in Buffers /\ Len(c) = Len(b) - 1
      /\ \A i \in 1..Len(c) : c[i] = b[i + 1]
  BY DEF Buffers
<1>2. h[1] \in Keys /\ h[2] \in {"none", "made", "full"}
  BY DEF Buffers
<1>3. e \in Disks /\ e[h[1]] = h[2] /\ \A k \in Keys \ {h[1]} : e[k] = d[k]
  BY <1>2 DEF Put, Disks, Formats
<1> HIDE DEF h, c, e
<1>4. ASSUME NEW k \in Keys PROVE View(e, c)[k] = View(d, b)[k]
  <2>1. \A i \in 1..Len(c) : i \in WritesOf(k, c) <=> i + 1 \in WritesOf(k, b)
    BY <1>1 DEF WritesOf
  <2>2. \A i \in WritesOf(k, b) : i \in Nat /\ (i = 1 \/ i - 1 \in WritesOf(k, c))
    BY <1>1 DEF WritesOf
  <2>3. \A i \in WritesOf(k, c) : i \in Nat /\ i + 1 \in WritesOf(k, b) /\ c[i] = b[i + 1]
    BY <1>1 DEF WritesOf
  <2>4. CASE WritesOf(k, c) # {}
    <3>1. PICK i \in WritesOf(k, c) : View(e, c)[k] = c[i][2] /\ \A j \in WritesOf(k, c) : j <= i
      BY <1>1, <1>3, <2>4, ViewFacts
    <3>2. i \in Nat /\ i + 1 \in WritesOf(k, b) /\ c[i] = b[i + 1]
      BY <2>3
    <3>3. \A j \in WritesOf(k, b) : j <= i + 1
      BY <2>2, <3>1, <3>2
    <3> QED BY <3>1, <3>2, <3>3, ViewFacts
  <2>5. CASE WritesOf(k, c) = {} /\ k = h[1]
    <3>1. 1 \in WritesOf(k, b) /\ \A j \in WritesOf(k, b) : j <= 1
      BY <1>1, <2>2, <2>5 DEF WritesOf
    <3>2. View(d, b)[k] = b[1][2]
      BY <3>1, ViewFacts
    <3> QED BY <1>1, <1>3, <2>5, <3>2, ViewFacts
  <2>6. CASE WritesOf(k, c) = {} /\ k # h[1]
    <3>1. 1 \notin WritesOf(k, b)
      BY <1>1, <2>6 DEF WritesOf
    <3>2. WritesOf(k, b) = {}
      BY <2>2, <2>6, <3>1
    <3> QED BY <1>1, <1>3, <2>6, <3>2, ViewFacts
  <2> QED BY <2>4, <2>5, <2>6
<1>5. View(e, c) = View(d, b)
  BY <1>4 DEF View
<1> QED BY <1>1, <1>2, <1>3, <1>5 DEF h, c, e
-----------------------------------------------------------------------------
(* The inductive invariant.                                                *)

Types ==
    /\ disk \in Disks /\ buffer \in Buffers
    /\ exposed \in 0..Len(buffer) /\ cheated \in BOOLEAN
    /\ todo \subseteq Keys

\* The versions whose records are gone over.
Migrated == {"0.10.0", "0.11.0", "0.12.0"}

\* Where the process is, and what VERSION and the iterator say there.
Position ==
    /\ pc \in {"down", "retrieve", "create"} => buffer = <<>>
    /\ pc = "http" => Matches_0_10(VERSION) /\ todo \subseteq Https
    /\ pc = "statistics" => VERSION \in Migrated /\ todo \subseteq Stats
    /\ pc = "up" => Compatible(VERSION)

\* Which records may still be in an old format: those before the iterator,
\* and, once VERSION is that of this version, those whose new form is among
\* the writes that VERSION vouches for.
OldFormats ==
    /\ pc = "http" => \A k \in Https : Seen[k] = "old" => k \in todo
    /\ pc = "statistics" => \A k \in Keys : Seen[k] = "old" => k \in todo
    /\ pc \in {"create", "migrated", "update"} => \A k \in Keys : Seen[k] # "old"
    /\ VERSION = "missing" => \A k \in Keys : disk[k] # "old"
    /\ VERSION = "0.12.0" => \A k \in Https : disk[k] # "old"
    /\ Compatible(VERSION) /\ ~cheated =>
          \A k \in Keys : disk[k] = "old" => \E i \in 1..exposed : buffer[i][1] = k

\* No record that is gone over has come in with its own values.
OwnValues ==
    /\ Matches_0_10(VERSION) => \A k \in Keys : disk[k] # "full"
    /\ VERSION = "0.12.0" => \A k \in Stats : disk[k] # "full"
    /\ VERSION \in Migrated => \A i \in 1..Len(buffer) : buffer[i][2] # "full"

Inv == Types /\ Position /\ OldFormats /\ OwnValues

\* The invariant holds at the start of the process,
LEMMA InvInit == Init => Inv
<1> SUFFICES ASSUME Init PROVE Inv
  OBVIOUS
<1>1. Types
  <2>1. disk \in Disks
    BY DEF Init, Initially, Disks, Formats
  <2>2. buffer = <<>> /\ buffer \in Buffers /\ Len(buffer) = 0
    BY DEF Init, Buffers
  <2>3. exposed = 0 /\ cheated = FALSE /\ todo = {}
    BY DEF Init
  <2>4. exposed \in 0..Len(buffer) /\ todo \subseteq Keys
    BY <2>2, <2>3
  <2>5. cheated \in BOOLEAN
    BY <2>3
  <2> QED BY <2>1, <2>2, <2>4, <2>5 DEF Types
<1>2. Seen = disk
  BY <1>1, ViewEmpty DEF Init, Seen, Types
<1>3. Position
  BY DEF Init, Position
<1>4. \A k \in Keys : disk[k] = "old" =>
         VERSION # "missing" /\ ~Compatible(VERSION) /\ (k \in Https => VERSION # "0.12.0")
  BY DEF Init, Initially
<1>5. OldFormats
  BY <1>4 DEF Init, OldFormats, Keys
<1>6. Matches_0_10(VERSION) => \A k \in Keys : disk[k] # "full"
  BY DEF Init, Initially, Matches_0_10, Compatible, Current
<1>7. VERSION = "0.12.0" => \A k \in Stats : disk[k] # "full"
  BY KeysAssumption DEF Init, Initially, Compatible, Current, Keys
<1>8. OwnValues
  BY <1>6, <1>7 DEF Init, OwnValues
<1> QED BY <1>1, <1>3, <1>5, <1>8 DEF Inv

\* A write by the process, seen at once: the disk, the file and the history
\* stay as they are.
LEMMA WriteStep ==
    ASSUME Inv, NEW k \in Keys, NEW value \in {"none", "made", "full"}, Write(k, value),
           UNCHANGED <<VERSION, disk, exposed, cheated>>,
           todo' \subseteq Keys, VERSION \in Migrated => value # "full"
    PROVE  /\ Types' /\ OwnValues'
           /\ Seen'[k] = value /\ \A l \in Keys \ {k} : Seen'[l] = Seen[l]
           /\ (Compatible(VERSION) /\ ~cheated =>
                 \A l \in Keys : disk[l] = "old" => \E i \in 1..exposed : buffer[i][1] = l)'
<1>0. /\ disk \in Disks /\ buffer \in Buffers /\ Len(buffer) \in Nat
      /\ exposed \in 0..Len(buffer) /\ cheated \in BOOLEAN
  BY DEF Inv, Types, Buffers
<1>1. /\ buffer' \in Buffers
      /\ Len(buffer') = Len(buffer) + 1 /\ buffer'[Len(buffer) + 1] = <<k, value>>
      /\ \A i \in 1..Len(buffer) : buffer'[i] = buffer[i]
  BY <1>0 DEF Write, Buffers
<1>2. /\ Seen'[k] = value /\ \A l \in Keys \ {k} : Seen'[l] = Seen[l]
  <2>1. Seen' = View(disk, buffer') /\ Seen = View(disk, buffer)
    BY DEF Seen
  <2>2. /\ View(disk, buffer')[k] = value
        /\ \A l \in Keys \ {k} : View(disk, buffer')[l] = View(disk, buffer)[l]
    BY <1>0, <1>1, ViewAppend
  <2> QED BY <1>1, <2>1, <2>2
<1>3. Types'
  BY <1>0, <1>1 DEF Types
<1>4. VERSION \in Migrated => \A i \in 1..Len(buffer') : buffer'[i][2] # "full"
  BY <1>0, <1>1 DEF Inv, OwnValues
<1>5. OwnValues'
  BY <1>4 DEF Inv, OwnValues, Matches_0_10
<1>6. \A i \in 1..exposed : buffer'[i] = buffer[i]
  BY <1>0, <1>1
<1>7. (Compatible(VERSION) /\ ~cheated =>
          \A l \in Keys : disk[l] = "old" => \E i \in 1..exposed : buffer[i][1] = l)'
  BY <1>6 DEF Inv, OldFormats, Compatible
<1> QED BY <1>2, <1>3, <1>5, <1>7

\* No version that is gone over is one that this program can serve.
LEMMA VersionsApart ==
    /\ \A v : Matches_0_10(v) => v \in Migrated /\ v # "0.12.0" /\ ~Matches_0_12(v)
    /\ \A v : v \in Migrated => ~Compatible(v) /\ v # "missing" /\ v # "empty"
    /\ \A v : ~Compatible(v) /\ Matches_0_12(v) => v = "0.12.0"
    /\ Compatible(Current) /\ Current # "missing" /\ Compatible("0.13.0")
    /\ ~Compatible("0.12.0") /\ Matches_0_12("0.12.0") /\ ~Matches_0_10("0.12.0")
    /\ ~Compatible("empty") /\ ~Matches_0_10("empty")
BY DEF Matches_0_10, Matches_0_12, Migrated, Compatible, Current

\* every step keeps it,
LEMMA InvStep == Inv /\ [Next]_vars => Inv'
<1> SUFFICES ASSUME Inv, [Next]_vars PROVE Inv'
  OBVIOUS
<1>0. /\ disk \in Disks /\ buffer \in Buffers /\ Len(buffer) \in Nat
      /\ exposed \in 0..Len(buffer) /\ cheated \in BOOLEAN /\ todo \subseteq Keys
      /\ Position /\ OldFormats /\ OwnValues
  BY DEF Inv, Types, Buffers
<1>old. \A k \in Keys : Seen[k] = "old" <=> (disk[k] = "old" /\ WritesOf(k, buffer) = {})
  BY <1>0, ViewOld DEF Seen
\* Steps that leave the database alone.
<1>same. ASSUME UNCHANGED <<disk, buffer>> PROVE Seen' = Seen
  BY <1>same DEF Seen
<1>1. CASE Start \/ Settled \/ UNCHANGED vars
  <2>1. /\ UNCHANGED <<VERSION, disk, buffer, version, todo, exposed, cheated>>
        /\ pc' = pc \/ (pc = "down" /\ pc' = "retrieve")
    BY <1>1 DEF Start, Settled, vars
  <2>2. Seen' = Seen
    BY <1>same, <2>1
  <2> QED BY <1>0, <2>1, <2>2
          DEF Inv, Types, Position, OldFormats, OwnValues, Matches_0_10, Compatible
<1>2. CASE TruncateVersion
  <2>1. /\ VERSION' = "empty" /\ UNCHANGED <<disk, buffer, todo, exposed, cheated>>
        /\ \/ pc = "retrieve" /\ VERSION = "missing" /\ pc' = "create"
           \/ pc = "migrated" /\ pc' = "update"
    BY <1>2 DEF TruncateVersion
  <2>2. Seen' = Seen
    BY <1>same, <2>1
  <2>3. \A k \in Keys : Seen[k] # "old"
    BY <1>0, <1>old, <2>1 DEF OldFormats
  <2>4. ~Compatible(VERSION') /\ ~Matches_0_10(VERSION') /\ VERSION' \notin Migrated
    BY <2>1, VersionsApart DEF Migrated
  <2>5. Types' /\ Position'
    BY <1>0, <2>1 DEF Types, Position
  <2>6. OldFormats'
    BY <2>1, <2>2, <2>3, <2>4 DEF OldFormats, Compatible
  <2>7. OwnValues'
    BY <2>1, <2>4 DEF OwnValues, Matches_0_10
  <2> QED BY <2>5, <2>6, <2>7 DEF Inv
<1>3. CASE WriteVersion
  <2>1. /\ VERSION' = Current /\ exposed' = Len(buffer) /\ UNCHANGED <<disk, buffer, todo, cheated>>
        /\ pc \in {"create", "update"} /\ pc' = IF pc = "create" THEN "retrieve" ELSE "up"
    BY <1>3 DEF WriteVersion
  <2>2. \A k \in Keys : disk[k] = "old" => \E i \in 1..Len(buffer) : buffer[i][1] = k
    BY <1>0, <1>old, <2>1 DEF OldFormats, WritesOf
  <2>3. Compatible(VERSION') /\ ~Matches_0_10(VERSION') /\ VERSION' \notin Migrated
    BY <2>1, VersionsApart
  <2>4. Types' /\ Position'
    BY <1>0, <2>1, <2>3 DEF Types, Position, Compatible
  <2>5. OldFormats'
    BY <2>1, <2>2, VersionsApart DEF OldFormats
  <2>6. OwnValues'
    BY <2>3, VersionsApart DEF OwnValues, Matches_0_10, Migrated
  <2> QED BY <2>4, <2>5, <2>6 DEF Inv
\* A migration is entered with the version found or reached.
<1>4. ASSUME NEW v, Enter(v), ~Compatible(v), UNCHANGED <<VERSION, disk, buffer, exposed, cheated>>,
             Matches_0_10(v) => Matches_0_10(VERSION),
             v = "0.12.0" => VERSION \in Migrated /\ \A k \in Https : Seen[k] # "old"
      PROVE  Inv'
  <2>1. /\ pc' = CASE Matches_0_10(v) -> "http" [] Matches_0_12(v) -> "statistics" [] OTHER -> "refused"
        /\ todo' = Present \cap (CASE Matches_0_10(v) -> Https [] Matches_0_12(v) -> Stats [] OTHER -> {})
    BY <1>4 DEF Enter
  <2>2. Seen' = Seen
    BY <1>same, <1>4
  <2>3. \A k \in Keys : Seen[k] = "old" => k \in Present
    BY DEF Present
  <2>4. CASE Matches_0_10(v)
    <3>1. pc' = "http" /\ todo' = Present \cap Https
      <4>1. ~Matches_0_12(v)
        BY <2>4, VersionsApart
      <4> QED BY <2>1, <2>4, <4>1
    <3>2. todo' \subseteq Https /\ todo' \subseteq Keys
      BY <3>1 DEF Keys
    <3>3. \A k \in Https : Seen'[k] = "old" => k \in todo'
      BY <2>2, <2>3, <3>1 DEF Keys
    <3> QED BY <1>0, <1>4, <2>4, <3>1, <3>2, <3>3
            DEF Inv, Types, Position, OldFormats, OwnValues, Matches_0_10, Compatible
  <2>5. CASE ~Matches_0_10(v) /\ Matches_0_12(v)
    <3>1. pc' = "statistics" /\ todo' = Present \cap Stats
      BY <2>1, <2>5
    <3>2. VERSION \in Migrated /\ \A k \in Https : Seen[k] # "old"
      BY <1>4, <2>5, VersionsApart
    <3>3. todo' \subseteq Stats /\ todo' \subseteq Keys
      BY <3>1 DEF Keys
    <3>4. \A k \in Keys : Seen'[k] = "old" => k \in todo'
      BY <2>2, <2>3, <3>1, <3>2 DEF Keys
    <3> QED BY <1>0, <1>4, <3>1, <3>2, <3>3, <3>4
            DEF Inv, Types, Position, OldFormats, OwnValues, Matches_0_10, Compatible
  <2>6. CASE ~Matches_0_10(v) /\ ~Matches_0_12(v)
    <3>1. pc' = "refused" /\ todo' = {}
      BY <2>1, <2>6
    <3> QED BY <1>0, <1>4, <3>1
            DEF Inv, Types, Position, OldFormats, OwnValues, Matches_0_10, Compatible
  <2> QED BY <2>4, <2>5, <2>6
<1>5. CASE ReadVersion
  <2>0. pc = "retrieve" /\ buffer = <<>> /\ Seen = disk
    BY <1>0, <1>5, ViewEmpty DEF ReadVersion, Position, Seen
  <2>1. CASE VERSION = "empty" \/ Compatible(VERSION)
    <3>1. /\ pc' = IF VERSION = "empty" THEN "refused" ELSE "up"
          /\ todo' = {} /\ UNCHANGED <<VERSION, disk, buffer, exposed, cheated>>
      BY <1>5, <2>1 DEF ReadVersion
    <3> QED BY <1>0, <2>1, <3>1
            DEF Inv, Types, Position, OldFormats, OwnValues, Matches_0_10, Compatible
  <2>2. CASE ~(VERSION = "empty" \/ Compatible(VERSION))
    <3>1. Enter(VERSION) /\ UNCHANGED <<VERSION, disk, buffer, exposed, cheated>>
      BY <1>5, <2>2 DEF ReadVersion
    <3>2. VERSION = "0.12.0" => VERSION \in Migrated /\ \A k \in Https : Seen[k] # "old"
      BY <1>0, <2>0 DEF OldFormats, Migrated
    <3> QED BY <1>4, <2>2, <3>1, <3>2
  <2> QED BY <2>1, <2>2
<1>6. CASE MigratedTo
  <2>1. CASE pc = "http"
    <3>1. Enter("0.12.0") /\ todo = {} /\ UNCHANGED <<VERSION, disk, buffer, exposed, cheated>>
      BY <1>6, <2>1, VersionsApart DEF MigratedTo
    <3>2. VERSION \in Migrated /\ \A k \in Https : Seen[k] # "old"
      BY <1>0, <2>1, <3>1, VersionsApart DEF Position, OldFormats
    <3> QED BY <1>4, <3>1, <3>2, VersionsApart
  <2>2. CASE pc = "statistics"
    <3>1. /\ pc' = "migrated" /\ todo = {} /\ todo' = {}
          /\ UNCHANGED <<VERSION, disk, buffer, exposed, cheated>>
      BY <1>6, <2>2, VersionsApart DEF MigratedTo
    <3>2. Seen' = Seen /\ \A k \in Keys : Seen[k] # "old"
      BY <1>0, <1>same, <2>2, <3>1 DEF OldFormats
    <3> QED BY <1>0, <3>1, <3>2
            DEF Inv, Types, Position, OldFormats, OwnValues, Matches_0_10, Compatible
  <2> QED BY <1>6, <2>1, <2>2 DEF MigratedTo
<1>7. CASE MigrateHttp
  <2> DEFINE k == First(todo)
  <2>1. /\ pc = "http" /\ pc' = "http" /\ todo' = todo \ {k} /\ Write(k, "made")
        /\ UNCHANGED <<VERSION, disk, exposed, cheated>> /\ todo # {}
    BY <1>7 DEF MigrateHttp
  <2>2. k \in todo /\ k \in Keys /\ todo \subseteq Https /\ Matches_0_10(VERSION)
    BY <1>0, <2>1, FirstFacts DEF Position
  <2> HIDE DEF k
  <2>3. /\ Types' /\ OwnValues' /\ Seen'[k] = "made" /\ \A l \in Keys \ {k} : Seen'[l] = Seen[l]
        /\ (Compatible(VERSION) /\ ~cheated =>
               \A l \in Keys : disk[l] = "old" => \E i \in 1..exposed : buffer[i][1] = l)'
    BY <1>0, <2>1, <2>2, WriteStep
  <2>4. \A l \in Https : Seen'[l] = "old" => l \in todo'
    BY <1>0, <2>1, <2>3 DEF OldFormats, Keys
  <2>5. OldFormats'
    BY <1>0, <2>1, <2>3, <2>4 DEF OldFormats
  <2>6. Position'
    BY <2>1, <2>2 DEF Position, Matches_0_10
  <2> QED BY <2>3, <2>5, <2>6 DEF Inv
<1>8. CASE MigrateStatistics
  <2> DEFINE k == First(todo)
  <2>1. /\ pc = "statistics" /\ pc' = "statistics" /\ todo' = todo \ {k} /\ Write(k, "none")
        /\ UNCHANGED <<VERSION, disk, exposed, cheated>> /\ todo # {}
    BY <1>8 DEF MigrateStatistics
  <2>2. k \in todo /\ k \in Keys /\ todo \subseteq Stats /\ VERSION \in Migrated
    BY <1>0, <2>1, FirstFacts DEF Position
  <2> HIDE DEF k
  <2>3. /\ Types' /\ OwnValues' /\ Seen'[k] = "none" /\ \A l \in Keys \ {k} : Seen'[l] = Seen[l]
        /\ (Compatible(VERSION) /\ ~cheated =>
               \A l \in Keys : disk[l] = "old" => \E i \in 1..exposed : buffer[i][1] = l)'
    BY <1>0, <2>1, <2>2, WriteStep
  <2>4. \A l \in Keys : Seen'[l] = "old" => l \in todo'
    BY <1>0, <2>1, <2>3 DEF OldFormats
  <2>5. OldFormats'
    BY <1>0, <2>1, <2>3, <2>4 DEF OldFormats
  <2>6. Position'
    BY <2>1, <2>2 DEF Position
  <2> QED BY <2>3, <2>5, <2>6 DEF Inv
<1>9. ASSUME NEW k \in Keys, Ingest(k) PROVE Inv'
  <2>1. /\ pc = "up" /\ pc' = "up" /\ todo' = todo /\ Write(k, "full")
        /\ UNCHANGED <<VERSION, disk, exposed, cheated>>
    BY <1>9 DEF Ingest
  <2>2. Compatible(VERSION) /\ VERSION \notin Migrated
    BY <1>0, <2>1, VersionsApart DEF Position
  <2>3. /\ Types' /\ OwnValues'
        /\ (Compatible(VERSION) /\ ~cheated =>
               \A l \in Keys : disk[l] = "old" => \E i \in 1..exposed : buffer[i][1] = l)'
    BY <1>0, <2>1, <2>2, WriteStep
  <2>4. OldFormats'
    BY <1>0, <2>1, <2>3 DEF OldFormats
  <2>5. Position'
    BY <2>1, <2>2 DEF Position, Compatible
  <2> QED BY <2>3, <2>4, <2>5 DEF Inv
<1>10. CASE Flush
  <2>1. /\ pc \in {"up", "refused"} /\ disk' = Seen /\ buffer' = <<>> /\ exposed' = 0
        /\ UNCHANGED <<VERSION, pc, todo, cheated>>
    BY <1>10 DEF Flush
  <2>2. Compatible(VERSION) /\ ~cheated => \A k \in Keys : Seen[k] # "old"
    <3> SUFFICES ASSUME Compatible(VERSION), ~cheated, NEW k \in Keys, Seen[k] = "old" PROVE FALSE
      OBVIOUS
    <3>1. disk[k] = "old" /\ WritesOf(k, buffer) = {}
      BY <1>old
    <3>2. PICK i \in 1..exposed : buffer[i][1] = k
      BY <1>0, <3>1 DEF OldFormats
    <3>3. i \in 1..Len(buffer)
      BY <1>0, <3>2
    <3> QED BY <3>1, <3>2, <3>3 DEF WritesOf
  <2>3. VERSION \in Migrated => \A k \in Keys : disk[k] # "full" => Seen[k] # "full"
    BY <1>0, ViewFull DEF OwnValues, Seen
  <2>4. \A k \in Keys : Seen[k] = "old" => disk[k] = "old"
    BY <1>old
  <2>5. Types'
    BY <1>0, <2>1, ViewType DEF Types, Seen, Buffers
  <2>6. Position'
    BY <1>0, <2>1 DEF Position, Compatible
  <2>7. OldFormats'
    BY <1>0, <2>1, <2>2, <2>4 DEF OldFormats, Compatible, Keys
  <2>8. OwnValues'
    <3>1. Len(buffer') = 0
      BY <2>1
    <3> QED BY <1>0, <2>1, <2>3, <3>1, VersionsApart DEF OwnValues, Matches_0_10, Keys, Migrated
  <2> QED BY <2>5, <2>6, <2>7, <2>8 DEF Inv
<1>11. CASE Spill
  <2> DEFINE h == Head(buffer)
  <2>1. /\ Len(buffer) > 1 /\ disk' = Put(disk, h) /\ buffer' = Tail(buffer)
        /\ exposed' = IF exposed > 0 THEN exposed - 1 ELSE 0
        /\ UNCHANGED <<VERSION, pc, todo, cheated>>
    BY <1>11 DEF Spill
  <2>2. buffer # <<>> /\ Len(buffer') = Len(buffer) - 1 /\ h = buffer[1]
        /\ \A i \in 1..Len(buffer') : buffer'[i] = buffer[i + 1]
    BY <1>0, <2>1 DEF Buffers
  <2>3. /\ disk' \in Disks /\ buffer' \in Buffers /\ h[1] \in Keys /\ disk'[h[1]] # "old"
        /\ \A k \in Keys \ {h[1]} : disk'[k] = disk[k]
    BY <1>0, <2>1, <2>2, ViewSpill
  <2>4. Seen' = Seen
    BY <1>0, <2>1, <2>2, ViewSpill DEF Seen
  <2>5. disk'[h[1]] = h[2]
    BY <1>0, <2>1, <2>3 DEF Put, Disks
  <2> HIDE DEF h
  <2>6. Types'
    BY <1>0, <2>1, <2>2, <2>3 DEF Types
  <2>7. Position'
    BY <1>0, <2>1, <2>2 DEF Position, Matches_0_10, Compatible
  <2>8. ASSUME Compatible(VERSION), ~cheated, NEW k \in Keys, disk'[k] = "old"
        PROVE  \E i \in 1..exposed' : buffer'[i][1] = k
    <3>1. k # h[1] /\ disk[k] = "old"
      BY <2>3, <2>8
    <3>2. PICK i \in 1..exposed : buffer[i][1] = k
      BY <1>0, <2>8, <3>1 DEF OldFormats
    <3>3. i \in 1..Len(buffer) /\ i # 1 /\ exposed > 0
      BY <1>0, <2>2, <3>1, <3>2
    <3>4. i - 1 \in 1..exposed' /\ i - 1 \in 1..Len(buffer')
      BY <1>0, <2>1, <2>2, <3>2, <3>3
    <3>5. buffer'[i - 1] = buffer[i]
      BY <1>0, <2>2, <3>3, <3>4
    <3> QED BY <3>2, <3>4, <3>5
  <2>9. \A k \in Keys : disk'[k] = "old" => disk[k] = "old"
    BY <2>3
  <2>10. OldFormats'
    BY <1>0, <2>1, <2>4, <2>8, <2>9 DEF OldFormats, Compatible, Keys
  <2>11. VERSION \in Migrated =>
            /\ h[2] # "full" /\ \A i \in 1..Len(buffer') : buffer'[i][2] # "full"
            /\ \A k \in Keys : disk[k] # "full" => disk'[k] # "full"
    <3> SUFFICES ASSUME VERSION \in Migrated
                 PROVE  /\ h[2] # "full" /\ \A i \in 1..Len(buffer') : buffer'[i][2] # "full"
                        /\ \A k \in Keys : disk[k] # "full" => disk'[k] # "full"
      OBVIOUS
    <3>1. \A i \in 1..Len(buffer) : buffer[i][2] # "full"
      BY <1>0 DEF OwnValues
    <3>2. h[2] # "full"
      BY <1>0, <2>1, <2>2, <3>1
    <3>3. \A i \in 1..Len(buffer') : i + 1 \in 1..Len(buffer)
      BY <1>0, <2>2
    <3> QED BY <2>2, <2>3, <2>5, <3>1, <3>2, <3>3
  <2>12. OwnValues'
    BY <1>0, <2>1, <2>11, VersionsApart DEF OwnValues, Matches_0_10, Keys, Migrated
  <2> QED BY <2>6, <2>7, <2>10, <2>12 DEF Inv
<1>12. CASE Crash
  <2>1. /\ pc' = "down" /\ buffer' = <<>> /\ todo' = {} /\ exposed' = 0
        /\ cheated' = (cheated \/ exposed > 0) /\ UNCHANGED <<VERSION, disk>>
    BY <1>12 DEF Crash
  <2>2. ASSUME ~cheated' PROVE ~cheated /\ exposed = 0
    <3>1. ~cheated /\ ~(exposed > 0)
      BY <2>1, <2>2
    <3> QED BY <1>0, <3>1
  <2>3. Types' /\ Position'
    BY <1>0, <2>1 DEF Types, Position, Buffers
  <2>4. Compatible(VERSION) /\ ~cheated' => \A k \in Keys : disk[k] # "old"
    BY <1>0, <2>2 DEF OldFormats
  <2>5. OldFormats'
    BY <1>0, <2>1, <2>4 DEF OldFormats, Compatible
  <2>6. OwnValues'
    BY <1>0, <2>1 DEF OwnValues, Matches_0_10
  <2> QED BY <2>3, <2>5, <2>6 DEF Inv
<1>13. CASE StartFails
  <2>1. pc' = "refused" /\ todo' = {} /\ UNCHANGED <<VERSION, disk, buffer, exposed, cheated>>
    BY <1>13 DEF StartFails
  <2>2. Types' /\ Position'
    BY <1>0, <2>1 DEF Types, Position
  <2>3. OldFormats' /\ OwnValues'
    BY <1>0, <2>1 DEF OldFormats, OwnValues, Compatible, Matches_0_10
  <2> QED BY <2>2, <2>3 DEF Inv
<1> QED
  BY <1>1, <1>2, <1>3, <1>5, <1>6, <1>7, <1>8, <1>9, <1>10, <1>11, <1>12, <1>13 DEF Next

\* and it holds at all times.
LEMMA InvAlways == Spec => []Inv
BY InvInit, InvStep, PTL DEF Spec

\* However often migrate_data_dir is interrupted and begun again, from
\* whatever version: once Giganto serves clients no record is in an old
\* format, unless a crash took writes that VERSION had vouched for.
THEOREM OnlyNewFormatsAreServed == Spec => []ServesNewFormats
<1>1. Inv => ServesNewFormats
  <2> SUFFICES ASSUME Inv, pc = "up", ~cheated, NEW k \in Keys, Seen[k] = "old" PROVE FALSE
    BY DEF ServesNewFormats
  <2>1. disk[k] = "old" /\ WritesOf(k, buffer) = {}
    BY ViewOld DEF Inv, Types, Seen
  <2>2. \E i \in 1..exposed : buffer[i][1] = k
    BY <2>1 DEF Inv, Position, OldFormats
  <2>3. 1..exposed \subseteq 1..Len(buffer)
    BY DEF Inv, Types, Buffers
  <2> QED BY <2>1, <2>2, <2>3 DEF WritesOf
<1> QED BY <1>1, InvAlways, PTL

\* While the process runs, a record that came in with its own values keeps
\* them: no migration goes over it, a restarted one neither.
THEOREM OwnValuesAreKept == Spec => NoRecordIsMigratedTwice
<1>1. Inv /\ [Next]_vars
        => [\A k \in Keys : (Seen[k] = "full" /\ pc' # "down") => Seen'[k] = "full"]_vars
  <2> SUFFICES ASSUME Inv, [Next]_vars, NEW k \in Keys, Seen[k] = "full", pc' # "down"
               PROVE  Seen'[k] = "full"
    OBVIOUS
  <2>0. disk \in Disks /\ buffer \in Buffers /\ Position /\ OwnValues
    BY DEF Inv, Types
  <2>1. ASSUME UNCHANGED <<disk, buffer>> PROVE Seen'[k] = "full"
    BY <2>1 DEF Seen
  <2>2. CASE Start \/ TruncateVersion \/ WriteVersion \/ ReadVersion \/ MigratedTo
                \/ StartFails \/ Settled \/ UNCHANGED vars
    BY <2>1, <2>2
       DEF Start, TruncateVersion, WriteVersion, ReadVersion, MigratedTo, StartFails, Settled, vars
  \* Whatever is written, it is written over another record.
  <2>3. ASSUME NEW l \in Keys \ {k}, NEW value \in {"none", "made", "full"}, Write(l, value),
               UNCHANGED <<VERSION, disk, exposed, cheated>>,
               todo' \subseteq Keys, VERSION \in Migrated => value # "full"
        PROVE  Seen'[k] = "full"
    <3>1. \A j \in Keys \ {l} : Seen'[j] = Seen[j]
      BY <2>3, WriteStep
    <3> QED BY <3>1
  <2>4. VERSION \in Migrated => \A i \in 1..Len(buffer) : buffer[i][2] # "full"
    BY <2>0 DEF OwnValues
  <2>5. ASSUME VERSION \in Migrated, NEW l \in Keys, disk[l] # "full" PROVE l # k
    BY <2>0, <2>4, <2>5, ViewFull DEF Seen
  <2>6. CASE MigrateHttp
    <3>1. /\ pc = "http" /\ todo # {} /\ todo' \subseteq todo /\ Write(First(todo), "made")
          /\ UNCHANGED <<VERSION, disk, exposed, cheated>>
      BY <2>6 DEF MigrateHttp
    <3>2. todo \subseteq Keys /\ Matches_0_10(VERSION) /\ VERSION \in Migrated
      BY <2>0, <3>1, VersionsApart DEF Inv, Types, Position
    <3>3. First(todo) \in Keys /\ disk[First(todo)] # "full"
      BY <2>0, <3>1, <3>2, FirstFacts DEF OwnValues
    <3>4. First(todo) # k
      BY <2>5, <3>2, <3>3
    <3> QED BY <2>3, <3>1, <3>2, <3>3, <3>4
  <2>7. CASE MigrateStatistics
    <3>1. /\ pc = "statistics" /\ todo # {} /\ todo' \subseteq todo /\ Write(First(todo), "none")
          /\ UNCHANGED <<VERSION, disk, exposed, cheated>>
      BY <2>7 DEF MigrateStatistics
    <3>2. todo \subseteq Keys /\ todo \subseteq Stats /\ VERSION \in Migrated
      BY <2>0, <3>1 DEF Inv, Types, Position
    <3>3. First(todo) \in Keys /\ First(todo) \in Stats
      BY <3>1, <3>2, FirstFacts
    <3>4. disk[First(todo)] # "full"
      BY <2>0, <3>2, <3>3 DEF OwnValues, Migrated, Matches_0_10
    <3>5. First(todo) # k
      BY <2>5, <3>2, <3>3, <3>4
    <3> QED BY <2>3, <3>1, <3>2, <3>3, <3>5
  <2>8. ASSUME NEW l \in Keys, Ingest(l) PROVE Seen'[k] = "full"
    <3>1. /\ pc = "up" /\ Seen[l] = "none" /\ Write(l, "full")
          /\ UNCHANGED <<VERSION, disk, todo, exposed, cheated>>
      BY <2>8 DEF Ingest
    <3>2. l # k /\ todo' \subseteq Keys /\ VERSION \notin Migrated
      BY <2>0, <3>1, VersionsApart DEF Inv, Types, Position
    <3> QED BY <2>3, <3>1, <3>2
  <2>9. CASE Flush
    <3>1. disk' = Seen /\ buffer' = <<>> /\ Seen \in Disks
      BY <2>0, <2>9, ViewType DEF Flush, Seen
    <3>2. View(Seen, <<>>) = Seen
      BY <3>1, ViewEmpty
    <3> QED BY <3>1, <3>2 DEF Seen
  <2>10. CASE Spill
    <3>1. /\ buffer # <<>> /\ disk' = Put(disk, Head(buffer)) /\ buffer' = Tail(buffer)
      BY <2>0, <2>10 DEF Spill, Buffers
    <3>2. Seen' = Seen
      BY <2>0, <3>1, ViewSpill DEF Seen
    <3> QED BY <3>2
  <2> QED
    BY <2>2, <2>6, <2>7, <2>8, <2>9, <2>10 DEF Next, Crash
<1> QED BY <1>1, InvAlways, PTL DEF Spec, NoRecordIsMigratedTwice

\* A start goes through the steps of migrate_data_dir in their order, however
\* many records there are, and from whatever version.
THEOREM StartsGoForwards == Spec => StartAdvances
<1> DEFINE Advance == \/ pc' = "down" \/ Stage' < Stage
                      \/ /\ pc' = pc /\ todo' \subseteq todo
                         /\ pc = "up" \/ todo' # todo \/ Seen' = Seen
<1>1. Inv /\ [Next]_vars => [Advance]_vars
  <2> SUFFICES ASSUME Inv, Next PROVE Advance
    OBVIOUS
  <2>1. CASE Start
    BY <2>1 DEF Start, Stage
  <2>2. CASE TruncateVersion
    BY <2>2 DEF TruncateVersion, Stage
  <2>3. CASE WriteVersion
    BY <2>3, VersionsApart DEF WriteVersion, Stage
  <2>4. ASSUME NEW v, Enter(v) PROVE pc' \in {"http", "statistics", "refused"}
    BY <2>4 DEF Enter
  <2>5. CASE ReadVersion
    <3>1. pc = "retrieve" /\ VERSION # "missing" /\ Stage = 5
      BY <2>5 DEF ReadVersion, Stage
    <3>2. pc' \in {"http", "statistics", "refused", "up"}
      BY <2>4, <2>5 DEF ReadVersion
    <3>3. Stage' \in {0, 3, 4}
      BY <3>2 DEF Stage
    <3> QED BY <3>1, <3>3
  <2>6. CASE MigrateHttp \/ MigrateStatistics
    <3>1. pc' = pc /\ todo # {} /\ todo' = todo \ {First(todo)}
      BY <2>6 DEF MigrateHttp, MigrateStatistics
    <3>2. First(todo) \in todo
      BY <3>1, FirstFacts DEF Inv, Types
    <3> QED BY <3>1, <3>2
  <2>7. CASE MigratedTo
    <3>1. CASE pc = "http"
      <4>1. Enter("0.12.0")
        BY <2>7, <3>1, VersionsApart DEF MigratedTo
      <4>2. pc' = "statistics"
        BY <4>1, VersionsApart DEF Enter
      <4> QED BY <3>1, <4>2 DEF Stage
    <3>2. CASE pc = "statistics"
      <4>1. pc' = "migrated"
        BY <2>7, <3>2, VersionsApart DEF MigratedTo
      <4> QED BY <3>2, <4>1 DEF Stage
    <3> QED BY <2>7, <3>1, <3>2 DEF MigratedTo
  <2>8. CASE \E k \in Keys : Ingest(k)
    BY <2>8 DEF Ingest
  <2>12. CASE Flush
    <3>1. disk' = Seen /\ buffer' = <<>> /\ UNCHANGED <<pc, todo>>
      BY <2>12 DEF Flush
    <3>2. Seen \in Disks
      BY ViewType DEF Inv, Types, Seen
    <3>3. Seen' = Seen
      BY <3>1, <3>2, ViewEmpty DEF Seen
    <3> QED BY <3>1, <3>3
  <2>13. CASE StartFails
    BY <2>13 DEF StartFails, Stage
  <2>9. CASE Spill
    <3>1. /\ buffer # <<>> /\ disk' = Put(disk, Head(buffer)) /\ buffer' = Tail(buffer)
          /\ UNCHANGED <<pc, todo>> /\ disk \in Disks /\ buffer \in Buffers
      BY <2>9 DEF Spill, Buffers, Inv, Types
    <3>2. Seen' = Seen
      BY <3>1, ViewSpill DEF Seen
    <3> QED BY <3>1, <3>2
  <2>10. CASE Crash
    BY <2>10 DEF Crash
  <2>11. CASE Settled
    <3>1. UNCHANGED <<pc, todo, disk, buffer>>
      BY <2>11 DEF Settled, vars
    <3> QED BY <3>1 DEF Seen
  <2> QED BY <2>1, <2>2, <2>3, <2>5, <2>6, <2>7, <2>8, <2>9, <2>10, <2>11, <2>12, <2>13 DEF Next
<1> QED BY <1>1, InvAlways, PTL DEF Spec, StartAdvances

\* VERSION is empty only while it is written, in a start that failed to do so,
\* or in a later one.
EmptyByCrash ==
    /\ crashes \in Nat
    /\ VERSION = "empty" =>
          \/ crashes > 0 \/ pc \in {"create", "update"}
          \/ pc = "refused" /\ failed
    /\ VERSION \in OldVersions \cup {"empty", Current}

\* Only an installation that is too old is refused, or one whose VERSION an
\* earlier start left empty, unless the start meets an error; the table of
\* migrations has no gap.
THEOREM RefusalsHaveACause == Spec => []RefusedForCause
<1> DEFINE I == EmptyByCrash /\ RefusedForCause
<1>1. Init => I
  BY VersionsAssumption DEF Init, EmptyByCrash, RefusedForCause
<1>2. I /\ [Next]_vars => I'
  <2> SUFFICES ASSUME EmptyByCrash, RefusedForCause, [Next]_vars PROVE I'
    OBVIOUS
  <2>1. CASE Start
    BY <2>1 DEF Start, EmptyByCrash, RefusedForCause
  <2>2. CASE TruncateVersion
    BY <2>2 DEF TruncateVersion, EmptyByCrash, RefusedForCause
  <2>3. CASE WriteVersion
    BY <2>3 DEF WriteVersion, EmptyByCrash, RefusedForCause, Current
  <2>4. CASE ReadVersion
    <3>1. pc = "retrieve" /\ UNCHANGED <<VERSION, crashes>>
      BY <2>4 DEF ReadVersion
    <3>2. CASE VERSION = "empty" \/ Compatible(VERSION)
      BY <2>4, <3>1, <3>2 DEF ReadVersion, EmptyByCrash, RefusedForCause
    <3>3. CASE ~(VERSION = "empty" \/ Compatible(VERSION))
      <4>1. Enter(VERSION) /\ VERSION \in OldVersions
        BY <2>4, <3>3, VersionsApart DEF ReadVersion, EmptyByCrash
      <4>2. pc' = "refused" => ~Matches_0_10(VERSION) /\ ~Matches_0_12(VERSION)
        BY <4>1 DEF Enter
      <4> QED BY <3>1, <3>3, <4>1, <4>2 DEF EmptyByCrash, RefusedForCause, Matches_0_10, Matches_0_12
    <3> QED BY <3>2, <3>3
  <2>5. CASE MigratedTo
    <3>1. pc \in {"http", "statistics"} /\ UNCHANGED <<VERSION, crashes>>
      BY <2>5 DEF MigratedTo
    <3>2. pc' # "refused"
      <4>1. CASE pc = "http"
        <5>1. Enter("0.12.0")
          BY <2>5, <4>1, VersionsApart DEF MigratedTo
        <5> QED BY <5>1, VersionsApart DEF Enter
      <4>2. CASE pc = "statistics"
        BY <2>5, <4>2, VersionsApart DEF MigratedTo
      <4> QED BY <3>1, <4>1, <4>2
    <3> QED BY <3>1, <3>2 DEF EmptyByCrash, RefusedForCause
  <2>6. CASE MigrateHttp \/ MigrateStatistics \/ Flush \/ Spill \/ \E k \in Keys : Ingest(k)
    <3>1. UNCHANGED <<VERSION, crashes, pc, failed>>
      BY <2>6 DEF MigrateHttp, MigrateStatistics, Flush, Spill, Ingest
    <3> QED BY <3>1 DEF EmptyByCrash, RefusedForCause, Matches_0_10, Matches_0_12
  <2>7. CASE Crash
    BY <2>7 DEF Crash, EmptyByCrash, RefusedForCause
  <2>8. CASE Settled \/ UNCHANGED vars
    <3>1. UNCHANGED <<VERSION, crashes, pc, failed>>
      BY <2>8 DEF Settled, vars
    <3> QED BY <3>1 DEF EmptyByCrash, RefusedForCause, Matches_0_10, Matches_0_12
  <2>9. CASE StartFails
    BY <2>9 DEF StartFails, EmptyByCrash, RefusedForCause
  <2> QED BY <2>1, <2>2, <2>3, <2>4, <2>5, <2>6, <2>7, <2>8, <2>9 DEF Next
<1> QED BY <1>1, <1>2, PTL DEF Spec
=============================================================================
