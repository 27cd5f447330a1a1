---------------------------- MODULE MCMigration ----------------------------
(* Migration of three http records and two statistics.                     *)
EXTENDS Migration

ThreeHttps == 1..3
TwoStats == 4..5
AllVersions == {"missing", "0.9.0", "0.10.0", "0.12.0", "0.15.3"}
=============================================================================
