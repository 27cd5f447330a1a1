---------------------------- MODULE MCLifecycle ----------------------------
(* The ingest and the publish server, the retention task, the GraphQL      *)
(* server and one handler of an ingest connection; one reload, so that a   *)
(* second generation is started and can be shut down with Ctrl-C.          *)
EXTENDS Lifecycle

MCServers == {"ingest", "publish"}
MCOthers == {"retain", "web"}
MCHandlers == {"agent"}
MCServerOf == [h \in MCHandlers |-> "ingest"]
=============================================================================
