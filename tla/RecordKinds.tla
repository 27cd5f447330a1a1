---------------------------- MODULE RecordKinds ----------------------------
(***************************************************************************)
(* The kinds of records Giganto keeps and what each of its interfaces does *)
(* with them.  A kind is a RawEventKind; a store is named by the accessor  *)
(* of Database that opens it.  Every `match` (or row of GraphQL resolvers) *)
(* that takes a kind to a store is a table of its own, translated arm by   *)
(* arm: the code repeats the choice a dozen times, and nothing but the     *)
(* repetition keeps the interfaces together.                               *)
(***************************************************************************)

\* The arms of two tables.
f ++ g ==
    [k \in DOMAIN f \cup DOMAIN g |-> IF k \in DOMAIN f THEN f[k] ELSE g[k]]

-----------------------------------------------------------------------------
(* src/storage.rs.  The blanks in the names of column families are written *)
(* as underscores.                                                         *)

RAW_DATA_COLUMN_FAMILY_NAMES == {
    "conn", "dns", "log", "http", "rdp", "periodic_time_series", "smtp",
    "ntlm", "kerberos", "ssh", "dce_rpc", "statistics", "oplog", "packet",
    "ftp", "mqtt", "ldap", "tls", "smb", "nfs", "process_create",
    "file_create_time", "network_connect", "process_terminate", "image_load",
    "file_create", "registry_value_set", "registry_key_rename",
    "file_create_stream_hash", "pipe_event", "dns_query", "file_delete",
    "process_tamper", "file_delete_detected", "netflow5", "netflow9",
    "seculog"}

NON_STANDARD_CFS == {
    "log", "periodic_time_series", "statistics", "oplog", "packet", "seculog"}

\* The accessors of Database and the column families they open.
SessionStores == [
    conn_store |-> "conn", dns_store |-> "dns", log_store |-> "log",
    http_store |-> "http", rdp_store |-> "rdp",
    periodic_time_series_store |-> "periodic_time_series",
    smtp_store |-> "smtp", ntlm_store |-> "ntlm",
    kerberos_store |-> "kerberos", ssh_store |-> "ssh",
    dce_rpc_store |-> "dce_rpc", statistics_store |-> "statistics",
    op_log_store |-> "oplog", packet_store |-> "packet"]

ProtocolStores == [
    ftp_store |-> "ftp", mqtt_store |-> "mqtt", ldap_store |-> "ldap",
    tls_store |-> "tls", smb_store |-> "smb", nfs_store |-> "nfs"]

SysmonStores == [
    process_create_store |-> "process_create",
    file_create_time_store |-> "file_create_time",
    network_connect_store |-> "network_connect",
    process_terminate_store |-> "process_terminate",
    image_load_store |-> "image_load", file_create_store |-> "file_create",
    registry_value_set_store |-> "registry_value_set",
    registry_key_rename_store |-> "registry_key_rename",
    file_create_stream_hash_store |-> "file_create_stream_hash",
    pipe_event_store |-> "pipe_event", dns_query_store |-> "dns_query",
    file_delete_store |-> "file_delete",
    process_tamper_store |-> "process_tamper",
    file_delete_detected_store |-> "file_delete_detected"]

FlowStores == [
    netflow5_store |-> "netflow5", netflow9_store |-> "netflow9",
    secu_log_store |-> "seculog"]

ColumnFamily == SessionStores ++ ProtocolStores ++ SysmonStores ++ FlowStores

-----------------------------------------------------------------------------
(* RawEventKind of giganto-client.                                         *)

\* The accessor that bears the name of a kind.
Store == [
    Conn |-> "conn_store", Dns |-> "dns_store", Log |-> "log_store",
    Http |-> "http_store", Rdp |-> "rdp_store",
    PeriodicTimeSeries |-> "periodic_time_series_store",
    Smtp |-> "smtp_store", Ntlm |-> "ntlm_store",
    Kerberos |-> "kerberos_store", Ssh |-> "ssh_store",
    DceRpc |-> "dce_rpc_store", Statistics |-> "statistics_store",
    OpLog |-> "op_log_store", Packet |-> "packet_store", Ftp |-> "ftp_store",
    Mqtt |-> "mqtt_store", Ldap |-> "ldap_store", Tls |-> "tls_store",
    Smb |-> "smb_store", Nfs |-> "nfs_store",
    ProcessCreate |-> "process_create_store",
    FileCreateTime |-> "file_create_time_store",
    NetworkConnect |-> "network_connect_store",
    ProcessTerminate |-> "process_terminate_store",
    ImageLoad |-> "image_load_store", FileCreate |-> "file_create_store",
    RegistryValueSet |-> "registry_value_set_store",
    RegistryKeyRename |-> "registry_key_rename_store",
    FileCreateStreamHash |-> "file_create_stream_hash_store",
    PipeEvent |-> "pipe_event_store", DnsQuery |-> "dns_query_store",
    FileDelete |-> "file_delete_store",
    ProcessTamper |-> "process_tamper_store",
    FileDeleteDetected |-> "file_delete_detected_store",
    Netflow5 |-> "netflow5_store", Netflow9 |-> "netflow9_store",
    SecuLog |-> "secu_log_store"]

Kinds == DOMAIN Store

\* Arms that open, for each of the kinds ks, the store of its name.
Own(ks) == [k \in ks |-> Store[k]]

-----------------------------------------------------------------------------
(* src/ingest.rs: handle_request.  The store a stream of a kind is written *)
(* to and the record type in its NetworkKey, under which its events reach  *)
(* the subscribers: the name of the column family, or "none" where the arm *)
(* has no NetworkKey.                                                      *)

Published(ks) == [k \in ks |-> <<Store[k], ColumnFamily[Store[k]]>>]
Kept(ks) == [k \in ks |-> <<Store[k], "none">>]

IngestSessions == Kept({"PeriodicTimeSeries"}) ++ Published({
    "Conn", "Dns", "Log", "Http", "Rdp", "Smtp", "Ntlm", "Kerberos", "Ssh",
    "DceRpc"})

\* Mutant: the arms of Smb and Nfs open each other's store.
IngestProtocolsSwapped ==
    [Kept({"Statistics", "OpLog", "Packet"})
        ++ Published({"Ftp", "Mqtt", "Ldap", "Tls", "Smb", "Nfs"})
     EXCEPT !["Smb"] = <<"nfs_store", "smb">>, !["Nfs"] = <<"smb_store", "nfs">>]

IngestProtocols ==
    Kept({"Statistics", "OpLog", "Packet"})
        ++ Published({"Ftp", "Mqtt", "Ldap", "Tls", "Smb", "Nfs"})

IngestSysmon == Kept({
    "ProcessCreate", "FileCreateTime", "NetworkConnect", "ProcessTerminate",
    "ImageLoad", "FileCreate", "RegistryValueSet", "RegistryKeyRename",
    "FileCreateStreamHash", "PipeEvent"})

IngestOthers == Kept({
    "DnsQuery", "FileDelete", "ProcessTamper", "FileDeleteDetected",
    "Netflow5", "Netflow9", "SecuLog"})

IngestArm == IngestSessions ++ IngestProtocols ++ IngestSysmon ++ IngestOthers

-----------------------------------------------------------------------------
(* src/publish.rs: the stores of range requests, of requests by timestamp  *)
(* and of subscriptions.  A kind without an arm gets a warning in the log  *)
(* and no answer.                                                          *)

RangeSessions == Own({
    "Conn", "Dns", "Rdp", "Http", "Smtp", "Log", "Ntlm", "Kerberos", "Ssh",
    "DceRpc", "Ftp", "Mqtt", "PeriodicTimeSeries"})

\* FileCreateTime is sent what file_create_store holds.
RangeSysmon == [Own({
    "Ldap", "Tls", "Smb", "Nfs", "ProcessCreate", "FileCreateTime",
    "NetworkConnect", "ProcessTerminate", "ImageLoad", "FileCreate",
    "RegistryValueSet", "RegistryKeyRename", "FileCreateStreamHash",
    "PipeEvent"})
    EXCEPT !["FileCreateTime"] = "file_create_store"]

RangeOthers == Own({
    "DnsQuery", "FileDelete", "ProcessTamper", "FileDeleteDetected",
    "Netflow5", "Netflow9"})

RangeStore == RangeSessions ++ RangeSysmon ++ RangeOthers

RawStore == Own({
    "Conn", "Dns", "Rdp", "Http", "Smtp", "Ntlm", "Kerberos", "Ssh", "DceRpc",
    "Ftp", "Mqtt", "Ldap", "Tls", "Smb", "Nfs", "Log", "PeriodicTimeSeries",
    "ProcessCreate", "FileCreateTime", "NetworkConnect", "ProcessTerminate",
    "ImageLoad", "FileCreate", "RegistryValueSet", "RegistryKeyRename",
    "FileCreateStreamHash", "PipeEvent", "DnsQuery", "FileDelete",
    "ProcessTamper", "FileDeleteDetected", "Netflow5", "Netflow9"})

\* process_stream: RequestStreamRecord has a value for each of these kinds.
StreamSessions == Own({"Conn", "Dns", "Rdp", "Http", "Log", "Smtp"})

StreamProtocols == Own({"Ntlm", "Kerberos", "Ssh", "DceRpc", "Ftp", "Mqtt"})

StreamOthers == Own({"Ldap", "Tls", "Smb", "Nfs", "FileCreate", "FileDelete"})

StreamStore == StreamSessions ++ StreamProtocols ++ StreamOthers

-----------------------------------------------------------------------------
(* src/graphql: the stores of the paged resolvers (`..._raw_events`,       *)
(* `..._events`) and of the searches (`search_..._events`).                *)

PagedSessions == Own({"Conn", "Dns", "Http", "Rdp", "Smtp", "Ntlm"})

PagedProtocols == Own({"Kerberos", "Ssh", "DceRpc", "Ftp", "Mqtt", "Ldap"})

PagedFlows == Own({"Tls", "Smb", "Nfs", "Netflow5", "Netflow9"})

PagedSysmon == Own({
    "ProcessCreate", "FileCreateTime", "NetworkConnect", "ProcessTerminate",
    "ImageLoad", "FileCreate"})

PagedRegistry == Own({
    "RegistryValueSet", "RegistryKeyRename", "FileCreateStreamHash",
    "PipeEvent", "DnsQuery", "FileDelete"})

PagedTampering == Own({"ProcessTamper", "FileDeleteDetected"})

PagedLogs == Own({"Log", "OpLog"})

PagedSecurity == Own({"SecuLog"})

PagedSeries == Own({"PeriodicTimeSeries"})

PagedPackets == Own({"Packet"})

PagedStore == PagedSessions ++ PagedProtocols ++ PagedFlows ++ PagedSysmon
    ++ PagedRegistry ++ PagedTampering ++ PagedLogs ++ PagedSecurity ++ PagedSeries
    ++ PagedPackets

SearchSessions == Own({
    "Conn", "Dns", "Http", "Rdp", "Smtp", "Ntlm", "Kerberos", "Ssh", "DceRpc",
    "Ftp"})

SearchProtocols == Own({
    "Mqtt", "Ldap", "Tls", "Smb", "Nfs", "Netflow5", "Netflow9"})

SearchSysmon == Own({
    "ProcessCreate", "FileCreateTime", "NetworkConnect", "ProcessTerminate",
    "ImageLoad", "FileCreate", "RegistryValueSet"})

SearchRegistry == Own({
    "RegistryKeyRename", "FileCreateStreamHash", "PipeEvent", "DnsQuery",
    "FileDelete", "ProcessTamper", "FileDeleteDetected"})

SearchStore == SearchSessions ++ SearchProtocols ++ SearchSysmon ++ SearchRegistry

-----------------------------------------------------------------------------
(* src/graphql/export.rs: the stores of export_by_protocol.  Protocol is   *)
(* the text a client has to give for a kind.                               *)

ExportSessions == Own({
    "Conn", "Dns", "Http", "Log", "Rdp", "Smtp", "PeriodicTimeSeries", "Ntlm",
    "Kerberos", "Ssh"})

ExportProtocols == Own({
    "DceRpc", "OpLog", "Ftp", "Mqtt", "Ldap", "Tls", "Smb", "Nfs",
    "Statistics", "ProcessCreate"})

ExportSysmon == Own({
    "FileCreateTime", "NetworkConnect", "ProcessTerminate", "ImageLoad",
    "FileCreate", "RegistryValueSet", "RegistryKeyRename",
    "FileCreateStreamHash", "PipeEvent", "DnsQuery"})

ExportOthers == Own({
    "FileDelete", "ProcessTamper", "FileDeleteDetected", "Netflow5",
    "Netflow9", "SecuLog"})

ExportStore == ExportSessions ++ ExportProtocols ++ ExportSysmon ++ ExportOthers

Protocol == [
    Conn |-> "conn", Dns |-> "dns", Http |-> "http", Log |-> "log",
    Rdp |-> "rdp", Smtp |-> "smtp",
    PeriodicTimeSeries |-> "periodic time series", Ntlm |-> "ntlm",
    Kerberos |-> "kerberos", Ssh |-> "ssh", DceRpc |-> "dce rpc",
    OpLog |-> "op_log", Ftp |-> "ftp", Mqtt |-> "mqtt", Ldap |-> "ldap",
    Tls |-> "tls", Smb |-> "smb", Nfs |-> "nfs", Statistics |-> "statistics",
    ProcessCreate |-> "process_create",
    FileCreateTime |-> "file_create_time",
    NetworkConnect |-> "network_connect",
    ProcessTerminate |-> "process_terminate", ImageLoad |-> "image_load",
    FileCreate |-> "file_create", RegistryValueSet |-> "registry_value_set",
    RegistryKeyRename |-> "registry_key_rename",
    FileCreateStreamHash |-> "file_create_stream_hash",
    PipeEvent |-> "pipe_event", DnsQuery |-> "dns_query",
    FileDelete |-> "file_delete", ProcessTamper |-> "process_tamper",
    FileDeleteDetected |-> "file_delete_detected", Netflow5 |-> "netflow5",
    Netflow9 |-> "netflow9", SecuLog |-> "secu_log"]

\* The protocols whose export takes no address; those of sysmon have blanks
\* here and underscores in export_by_protocol.
NON_NETWORK == {
    "log", "periodic time series", "op_log", "statistics", "sysmon",
    "process create", "file create time", "network connect",
    "process terminate", "image load", "file create", "registry value set",
    "registry key rename", "file create stream hash", "pipe event",
    "dns query", "file delete", "process tamper", "file delete detected",
    "secu_log"}

-----------------------------------------------------------------------------
(* src/ingest/implement.rs: what the EventFilter of a record offers to a   *)
(* filter.  The two addresses and the two ports come together.             *)

Session == {"addr", "port"}
Nothing(ks) == [k \in ks |-> {}]
Sessions(ks) == [k \in ks |-> Session]

SessionFields ==
    Sessions({"Conn", "Dns", "Rdp", "Smtp"}) ++ [Http |-> Session \cup {"text"}]

ProtocolFields ==
    Sessions({"Ntlm", "Kerberos", "Ssh", "DceRpc"}) ++ Nothing({"Log"})
        ++ [OpLog |-> {"level", "contents"}]

SeriesFields ==
    Nothing({"PeriodicTimeSeries", "Packet"})
        ++ Sessions({"Ftp", "Mqtt", "Ldap", "Tls"})

ProcessFields ==
    Sessions({"Smb", "Nfs", "NetworkConnect"})
        ++ Nothing({"Statistics", "ProcessCreate", "FileCreateTime"})

RegistryFields == Nothing({"ProcessTerminate", "ImageLoad", "FileCreate",
    "RegistryValueSet", "RegistryKeyRename", "FileCreateStreamHash"})

FileFields == Nothing({
    "PipeEvent", "DnsQuery", "FileDelete", "ProcessTamper", "FileDeleteDetected"})

FlowFields ==
    [Netflow5 |-> Session, Netflow9 |-> Session \cup {"contents"},
     SecuLog |-> Session \cup {"contents", "source"}]

Fields == SessionFields ++ ProtocolFields ++ SeriesFields ++ ProcessFields
    ++ RegistryFields ++ FileFields ++ FlowFields
=============================================================================
