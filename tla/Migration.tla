----------------------------- MODULE Migration -----------------------------
(***************************************************************************)
(* The start of Giganto on the data of an earlier version                  *)
(* (src/storage/migration.rs), with crashes: the VERSION file says in which *)
(* format the records are, the migrations rewrite the records one by one,  *)
(* and VERSION is written anew when the last of them is through.           *)
(*                                                                         *)
(* The database is opened with manual_wal_flush: a write is in memory and  *)
(* in a log buffer of the process, and reaches the disk when the log is    *)
(* flushed, by the database when the buffer is full, by retention and      *)
(* ingest on their own account.  A crash is that of the process: it loses  *)
(* the buffer, and keeps what was written to a file.                       *)
(***************************************************************************)
EXTENDS Integers, Sequences, SequencesExt

CONSTANTS
    Https,       \* the keys of http records
    Stats,       \* the keys of statistics
    OldVersions, \* the versions an installation may come from
    MaxCrashes   \* bound: how often the process is stopped, or started anew after
                 \* a refusal, in one behaviour

\* A key stands for its place in the order of the iterators.
ASSUME KeysAssumption == Https \subseteq Nat /\ Stats \subseteq Nat /\ Https \cap Stats = {}
\* VERSION is whole when an installation is found.
ASSUME VersionsAssumption == "empty" \notin OldVersions

VARIABLES
    VERSION,   \* the file: "missing", "empty" or the version in it
    disk,      \* key -> format of its record, or "none"
    buffer,    \* the writes that have not reached the disk, in order
    pc,        \* where the process is
    version,   \* migrate_data_dir's own: the version reached so far
    todo,      \* the keys the iterator of a migration has still to give
    crashes,   \* how often the process was stopped or started anew
    failed,    \* the present start, or the last one, met an error
    exposed,   \* history: how many writes of the buffer VERSION vouches for
    cheated    \* history: such a write was lost

vars == <<VERSION, disk, buffer, pc, version, todo, crashes, failed, exposed, cheated>>

Keys == Https \cup Stats

-----------------------------------------------------------------------------
(* Versions.                                                               *)

Current == "0.15.3"

\* COMPATIBLE_VERSION_REQ, of the versions here.
Compatible(v) == v \in {"0.13.0-alpha.1", "0.13.0", Current}

\* The rows of the table whose requirement a version meets.
\* Mutant: the first requirement reaches to the version that its row leads to.
Matches_0_10Through(v) == v \in {"0.10.0", "0.11.0", "0.12.0"}

Matches_0_10(v) == v \in {"0.10.0", "0.11.0"}

\* Mutant: the requirement of the second row leaves its first version out.
Matches_0_12After(v) == v = "0.13.0-alpha.1"

Matches_0_12(v) == v \in {"0.12.0", "0.13.0-alpha.1"}

\* The formats: an http record is "old" up to 0.11, and a statistic, without
\* the core in its key, up to 0.12; "made" is an http record with the values
\* that the migration makes up for the new fields, "full" is one as it came.
Initially(v) ==
    [k \in Keys |-> IF v = "missing" THEN "none"
                    ELSE IF Compatible(v) \/ (k \in Https /\ v = "0.12.0") THEN "full"
                    ELSE "old"]

-----------------------------------------------------------------------------
(* The database, of which the process sees what is on disk and in memory.  *)

Put(d, w) == [d EXCEPT ![w[1]] = w[2]]

\* The writes of k in buffer b; the last of them is what a reader sees.
WritesOf(k, b) == {i \in 1..Len(b) : b[i][1] = k}
View(d, b) == [k \in Keys |-> IF WritesOf(k, b) = {} THEN d[k]
                                                     ELSE b[Max(WritesOf(k, b))][2]]
Seen == View(disk, buffer)
Present == {k \in Keys : Seen[k] # "none"}

Write(k, value) == buffer' = Append(buffer, <<k, value>>)

Init ==
    /\ VERSION \in OldVersions
    /\ disk = Initially(VERSION)
    /\ buffer = <<>> /\ pc = "down" /\ version = "none" /\ todo = {}
    /\ crashes = 0 /\ failed = FALSE /\ exposed = 0 /\ cheated = FALSE

\* Database::open, which finds what is on the disk.
Start ==
    /\ pc = "down"
    /\ pc' = "retrieve" /\ failed' = FALSE
    /\ UNCHANGED <<VERSION, disk, buffer, version, todo, crashes, exposed, cheated>>

-----------------------------------------------------------------------------
(* migrate_data_dir                                                        *)

\* Mutant: the version that was reached is not written down.
TruncateVersionForgotten ==
    /\ pc \in {"retrieve", "migrated"}
    /\ pc = "retrieve" => VERSION = "missing"
    /\ pc' = IF pc = "retrieve" THEN "create" ELSE "up"
    /\ VERSION' = IF pc = "retrieve" THEN "empty" ELSE VERSION
    /\ UNCHANGED <<disk, buffer, version, todo, crashes, failed, exposed, cheated>>

\* create_version_file opens the file, which makes it empty, and then writes.
TruncateVersion ==
    /\ \/ pc = "retrieve" /\ VERSION = "missing" /\ pc' = "create"
       \/ pc = "migrated" /\ pc' = "update"
    /\ VERSION' = "empty"
    /\ UNCHANGED <<disk, buffer, version, todo, crashes, failed, exposed, cheated>>

WriteVersion ==
    /\ \/ pc = "create" /\ pc' = "retrieve"
       \/ pc = "update" /\ pc' = "up"
    /\ VERSION' = Current
    /\ exposed' = Len(buffer)
    /\ UNCHANGED <<disk, buffer, version, todo, crashes, failed, cheated>>

\* The migration to enter with version v, whose iterator is opened now.
Enter(v) ==
    /\ version' = v
    /\ pc' = CASE Matches_0_10(v) -> "http"
               [] Matches_0_12(v) -> "statistics"
               [] OTHER -> "refused"
    /\ todo' = Present \cap (CASE Matches_0_10(v) -> Https
                               [] Matches_0_12(v) -> Stats
                               [] OTHER -> {})

\* read_version_file fails for an empty file, and main gives up.
ReadVersion ==
    /\ pc = "retrieve" /\ VERSION # "missing"
    /\ IF VERSION = "empty" \/ Compatible(VERSION)
       THEN /\ pc' = IF VERSION = "empty" THEN "refused" ELSE "up"
            /\ version' = VERSION /\ todo' = {}
       ELSE Enter(VERSION)
    /\ UNCHANGED <<VERSION, disk, buffer, crashes, failed, exposed, cheated>>

First(S) == CHOOSE k \in S : \A l \in S : k <= l

\* One record of migrate_0_10_to_0_12.  What was made over before a crash is
\* read as an old record again, as bincode ignores the bytes that follow.
MigrateHttp ==
    /\ pc = "http" /\ todo # {}
    /\ Write(First(todo), "made")
    /\ todo' = todo \ {First(todo)}
    /\ UNCHANGED <<VERSION, disk, pc, version, crashes, failed, exposed, cheated>>

\* One record of migrate_0_12_to_0_13_0.
MigrateStatistics ==
    /\ pc = "statistics" /\ todo # {}
    /\ Write(First(todo), "none")
    /\ todo' = todo \ {First(todo)}
    /\ UNCHANGED <<VERSION, disk, pc, version, crashes, failed, exposed, cheated>>

\* Mutant: one migration is taken to be enough.
MigratedToEarly ==
    /\ pc \in {"http", "statistics"} /\ todo = {}
    /\ pc' = "migrated" /\ version' = Current /\ todo' = {}
    /\ UNCHANGED <<VERSION, disk, buffer, crashes, failed, exposed, cheated>>

\* A migration is through: on to the version it leads to.
MigratedTo ==
    /\ pc \in {"http", "statistics"} /\ todo = {}
    /\ LET to == IF pc = "http" THEN "0.12.0" ELSE "0.13.0"
       IN  IF Compatible(to)
           THEN pc' = "migrated" /\ version' = to /\ todo' = {}
           ELSE Enter(to)
    /\ UNCHANGED <<VERSION, disk, buffer, crashes, failed, exposed, cheated>>

\* An error that a `?` hands up to main, which returns: a store does not open,
\* a record cannot be read, does not have the form of an OldHttp or cannot be
\* written or deleted, or VERSION cannot be created, written or read.  What
\* was done by then stays, VERSION as it was or, when it was opened to be
\* written, without a version in it.
StartFails ==
    /\ pc \in {"retrieve", "create", "http", "statistics", "migrated", "update"}
    /\ pc' = "refused" /\ todo' = {} /\ failed' = TRUE
    /\ UNCHANGED <<VERSION, disk, buffer, version, crashes, exposed, cheated>>

-----------------------------------------------------------------------------
(* What happens to the database meanwhile.                                 *)

\* Ingest, which begins when the migrations are through.
Ingest(k) ==
    /\ pc = "up" /\ Seen[k] = "none"
    /\ Write(k, "full")
    /\ UNCHANGED <<VERSION, disk, pc, version, todo, crashes, failed, exposed, cheated>>

\* flush_wal: retention does so at its first tick, ingest after a rotation.
\* The log is written out as well when main returns and the database closes.
Flush ==
    /\ pc \in {"up", "refused"} /\ buffer # <<>>
    /\ disk' = Seen /\ buffer' = <<>> /\ exposed' = 0
    /\ UNCHANGED <<VERSION, pc, version, todo, crashes, failed, cheated>>

\* The buffer of the log is full and its beginning goes to the disk.
Spill ==
    /\ Len(buffer) > 1
    /\ disk' = Put(disk, Head(buffer)) /\ buffer' = Tail(buffer)
    /\ exposed' = IF exposed > 0 THEN exposed - 1 ELSE 0
    /\ UNCHANGED <<VERSION, pc, version, todo, crashes, failed, cheated>>

\* The process ends at any point and the buffer is lost.
Crash ==
    /\ pc # "down" /\ crashes < MaxCrashes
    /\ pc' = "down" /\ buffer' = <<>> /\ todo' = {} /\ version' = "none"
    /\ crashes' = crashes + 1
    /\ exposed' = 0 /\ cheated' = (cheated \/ exposed > 0)
    /\ UNCHANGED <<VERSION, disk, failed>>

\* The program has nothing more to do.
Settled ==
    /\ pc \in {"up", "refused"} /\ crashes = MaxCrashes
    /\ pc = "up" => Present = Keys /\ buffer = <<>>
    /\ UNCHANGED vars

Next ==
    \/ Start \/ TruncateVersion \/ WriteVersion \/ ReadVersion
    \/ MigrateHttp \/ MigrateStatistics \/ MigratedTo \/ StartFails
    \/ (\E k \in Keys : Ingest(k)) \/ Flush \/ Spill \/ Crash \/ Settled

Spec == Init /\ [][Next]_vars

\* The process is started again after a crash and runs; clients need not
\* send anything.
FairSpec ==
    /\ Spec
    /\ WF_vars(Start) /\ WF_vars(TruncateVersion) /\ WF_vars(WriteVersion)
    /\ WF_vars(ReadVersion) /\ WF_vars(MigrateHttp)
    /\ WF_vars(MigrateStatistics) /\ WF_vars(MigratedTo)

-----------------------------------------------------------------------------
(* Properties.                                                             *)

\* However often migrate_data_dir is interrupted and begun again, when
\* Giganto serves clients no record is in an old format.  The exception is a
\* crash between the writing of VERSION and the first flush of the log, which
\* no code of the migration asks for.
ServesNewFormats ==
    pc = "up" /\ ~cheated => \A k \in Keys : Seen[k] # "old"

\* A record that came in with its own values never has them made up, and a
\* statistic with its core is not deleted: migrate_data_dir does not go over
\* the records of a version that needs no migration.
NoRecordIsMigratedTwice ==
    [][\A k \in Keys : (Seen[k] = "full" /\ pc' # "down") => Seen'[k] = "full"]_vars

\* The steps of a start, in the order in which it goes through them.
Stage ==
    CASE pc = "down"       -> 8
      [] pc = "retrieve"   -> IF VERSION = "missing" THEN 7 ELSE 5
      [] pc = "create"     -> 6
      [] pc = "http"       -> 4
      [] pc = "statistics" -> 3
      [] pc = "migrated"   -> 2
      [] pc = "update"     -> 1
      [] OTHER             -> 0

\* A start never goes back: each step of migrate_data_dir leads to a later one
\* or to the next record, so that no row of the table of migrations is entered
\* again, and what else happens meanwhile changes nothing that a reader sees.
StartAdvances ==
    [][\/ pc' = "down" \/ Stage' < Stage
       \/ /\ pc' = pc /\ todo' \subseteq todo
          /\ pc = "up" \/ todo' # todo \/ Seen' = Seen]_vars

\* A start that meets no error is refused only because VERSION names a version
\* that is too old for any row of the table, or is empty since an earlier start
\* ended in create_version_file: no migration leads to a version from which
\* there is no further.
RefusedForCause ==
    pc = "refused" =>
        \/ failed
        \/ VERSION = "empty" /\ crashes > 0
        \/ VERSION \in OldVersions /\ ~Matches_0_10(VERSION) /\ ~Matches_0_12(VERSION)

\* Each start comes to an end, with Giganto up or with a refusal, and it is
\* refused only because of an error, because VERSION is that of a version without
\* a migration, or because it is empty since an earlier start ended in
\* create_version_file.
StartEnds ==
    (pc = "retrieve") ~>
        \/ pc \in {"up", "down"}
        \/ pc = "refused" /\ failed
        \/ pc = "refused" /\ VERSION = "empty" /\ crashes > 0
        \/ pc = "refused" /\ VERSION = "0.9.0"
=============================================================================
