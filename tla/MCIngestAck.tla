---------------------------- MODULE MCIngestAck ----------------------------
(* IngestAck on small instances.  RotationCnt = 2 and MaxEvents = 7 leave  *)
(* room for the longest backlog, 2 * RotationCnt + 1, and one event more.  *)
EXTENDS IngestAck
=============================================================================
