-------------------------- MODULE EventStoreProofs --------------------------
(***************************************************************************)
(* Proofs about EventStore, for any sources, middle parts, times, ranges   *)
(* and events: the tables of the interfaces agree with each other, a scan  *)
(* between two bounds finds exactly what was asked for, retention leaves   *)
(* nothing old behind, the whole implements EventArchive, and statistics   *)
(* are summed up exactly.                                                  *)
(***************************************************************************)
EXTENDS EventStore, NaturalsInduction, WellFoundedInduction, SequenceTheorems, TLAPS

-----------------------------------------------------------------------------
(* The tables of RecordKinds.                                              *)

\* The kinds, one by one.
LEMMA AllKinds ==
    Kinds = {"Conn", "Dns", "Log", "Http", "Rdp", "PeriodicTimeSeries", "Smtp",
        "Ntlm", "Kerberos", "Ssh", "DceRpc", "Statistics", "OpLog", "Packet", "Ftp",
        "Mqtt", "Ldap", "Tls", "Smb", "Nfs", "ProcessCreate", "FileCreateTime",
        "NetworkConnect", "ProcessTerminate", "ImageLoad", "FileCreate",
        "RegistryValueSet", "RegistryKeyRename", "FileCreateStreamHash", "PipeEvent",
        "DnsQuery", "FileDelete", "ProcessTamper", "FileDeleteDetected", "Netflow5",
        "Netflow9", "SecuLog"}
BY DEF Kinds, Store

\* The column family that bears the name of a kind.
Family(k) == ColumnFamily[Store[k]]

\* The column families, one by one.
LEMMA Families ==
    /\ Family("Conn") = "conn" /\ Family("Dns") = "dns" /\ Family("Log") = "log"
    /\ Family("Http") = "http" /\ Family("Rdp") = "rdp"
    /\ Family("PeriodicTimeSeries") = "periodic_time_series"
    /\ Family("Smtp") = "smtp" /\ Family("Ntlm") = "ntlm"
    /\ Family("Kerberos") = "kerberos" /\ Family("Ssh") = "ssh"
    /\ Family("DceRpc") = "dce_rpc" /\ Family("Statistics") = "statistics"
    /\ Family("OpLog") = "oplog" /\ Family("Packet") = "packet"
    /\ Family("Ftp") = "ftp" /\ Family("Mqtt") = "mqtt" /\ Family("Ldap") = "ldap"
    /\ Family("Tls") = "tls" /\ Family("Smb") = "smb" /\ Family("Nfs") = "nfs"
    /\ Family("ProcessCreate") = "process_create"
    /\ Family("FileCreateTime") = "file_create_time"
    /\ Family("NetworkConnect") = "network_connect"
    /\ Family("ProcessTerminate") = "process_terminate"
    /\ Family("ImageLoad") = "image_load" /\ Family("FileCreate") = "file_create"
    /\ Family("RegistryValueSet") = "registry_value_set"
    /\ Family("RegistryKeyRename") = "registry_key_rename"
    /\ Family("FileCreateStreamHash") = "file_create_stream_hash"
    /\ Family("PipeEvent") = "pipe_event" /\ Family("DnsQuery") = "dns_query"
    /\ Family("FileDelete") = "file_delete"
    /\ Family("ProcessTamper") = "process_tamper"
    /\ Family("FileDeleteDetected") = "file_delete_detected"
    /\ Family("Netflow5") = "netflow5" /\ Family("Netflow9") = "netflow9"
    /\ Family("SecuLog") = "seculog"
<1>1. DOMAIN SessionStores = {"conn_store", "dns_store", "log_store", "http_store",
        "rdp_store", "periodic_time_series_store", "smtp_store", "ntlm_store",
        "kerberos_store", "ssh_store", "dce_rpc_store", "statistics_store",
        "op_log_store", "packet_store"}
  BY DEF SessionStores
<1>2. DOMAIN ProtocolStores = {"ftp_store", "mqtt_store", "ldap_store", "tls_store",
        "smb_store", "nfs_store"}
  BY DEF ProtocolStores
<1>3. DOMAIN SysmonStores = {"process_create_store", "file_create_time_store",
        "network_connect_store", "process_terminate_store", "image_load_store",
        "file_create_store", "registry_value_set_store", "registry_key_rename_store",
        "file_create_stream_hash_store", "pipe_event_store", "dns_query_store",
        "file_delete_store", "process_tamper_store", "file_delete_detected_store"}
  BY DEF SysmonStores
<1>4. DOMAIN FlowStores = {"netflow5_store", "netflow9_store", "secu_log_store"}
  BY DEF FlowStores
<1>5. \A s \in DOMAIN SessionStores : ColumnFamily[s] = SessionStores[s]
  BY DEF ColumnFamily, ++
<1>6. \A s \in DOMAIN ProtocolStores : ColumnFamily[s] = ProtocolStores[s]
  <2> TAKE s \in DOMAIN ProtocolStores
  <2>1. s \notin DOMAIN SessionStores
    BY <1>1, <1>2
  <2> QED BY <2>1 DEF ColumnFamily, ++
<1>7. \A s \in DOMAIN SysmonStores : ColumnFamily[s] = SysmonStores[s]
  <2> TAKE s \in DOMAIN SysmonStores
  <2>1. s \notin DOMAIN SessionStores /\ s \notin DOMAIN ProtocolStores
    BY <1>1, <1>2, <1>3
  <2> QED BY <2>1 DEF ColumnFamily, ++
<1>8. \A s \in DOMAIN FlowStores : ColumnFamily[s] = FlowStores[s]
  <2> TAKE s \in DOMAIN FlowStores
  <2>1. /\ s \notin DOMAIN SessionStores /\ s \notin DOMAIN ProtocolStores
        /\ s \notin DOMAIN SysmonStores
    BY <1>1, <1>2, <1>3, <1>4
  <2> QED BY <2>1 DEF ColumnFamily, ++
<1> QED
  BY <1>1, <1>2, <1>3, <1>4, <1>5, <1>6, <1>7, <1>8
  DEF Family, Store, SessionStores, ProtocolStores, SysmonStores, FlowStores

\* No two kinds share a column family, and none is the "none" of ingest.
LEMMA FamilyIsOwn ==
    /\ \A j, k \in Kinds : Family(j) = Family(k) => j = k
    /\ \A k \in Kinds : Family(k) # "none"
BY AllKinds, Families

\* Retention looks after the families of all kinds but those whose keys have
\* another form.
LEMMA Retained ==
    \A k \in Kinds :
        /\ Family(k) \in RetainPeriodStore <=> k \notin Divided
        /\ Family(k) = "log" <=> k = "Log"
<1> SUFFICES ASSUME NEW k \in Kinds
             PROVE  /\ Family(k) \in RetainPeriodStore <=> k \notin Divided
                    /\ Family(k) = "log" <=> k = "Log"
  OBVIOUS
<1>1. Family(k) \in RAW_DATA_COLUMN_FAMILY_NAMES
  BY AllKinds, Families DEF RAW_DATA_COLUMN_FAMILY_NAMES
<1>2. Family(k) \in NON_STANDARD_CFS <=> k \in Divided
  BY AllKinds, Families DEF NON_STANDARD_CFS, Divided
<1>3. Family(k) = "log" <=> k = "Log"
  BY AllKinds, Families
<1> QED BY <1>1, <1>2, <1>3 DEF RetainPeriodStore

\* A table opens, for kinds among ks, the stores of their names.
Opens(table, ks) ==
    DOMAIN table \subseteq ks /\ \A k \in DOMAIN table : table[k] = Store[k]

\* A row of arms that open the stores of their names.
LEMMA OpensOwn ==
    ASSUME NEW A, NEW ks, A \subseteq ks
    PROVE  Opens(Own(A), ks)
BY DEF Opens, Own

\* Two tables that do so, taken together.
LEMMA OpensArms ==
    ASSUME NEW f, NEW g, NEW ks, Opens(f, ks), Opens(g, ks)
    PROVE  Opens(f ++ g, ks)
BY DEF Opens, ++

\* What the paged resolvers open: no statistics among it.
LEMMA PagedOpens == Opens(PagedStore, Kinds \ {"Statistics"})
<1> DEFINE ks == Kinds \ {"Statistics"}
<1>1. Opens(PagedSessions, ks) /\ Opens(PagedProtocols, ks) /\ Opens(PagedFlows, ks)
  BY OpensOwn, AllKinds DEF PagedSessions, PagedProtocols, PagedFlows
<1>2. Opens(PagedSysmon, ks) /\ Opens(PagedRegistry, ks) /\ Opens(PagedTampering, ks)
  BY OpensOwn, AllKinds DEF PagedSysmon, PagedRegistry, PagedTampering
<1>3. /\ Opens(PagedLogs, ks) /\ Opens(PagedSecurity, ks) /\ Opens(PagedSeries, ks)
      /\ Opens(PagedPackets, ks)
  BY OpensOwn, AllKinds DEF PagedLogs, PagedSecurity, PagedSeries, PagedPackets
<1> HIDE DEF ks
<1>4. Opens(PagedSessions ++ PagedProtocols ++ PagedFlows, ks)
  BY <1>1, OpensArms
<1>5. Opens(PagedSessions ++ PagedProtocols ++ PagedFlows ++ PagedSysmon
            ++ PagedRegistry ++ PagedTampering, ks)
  BY <1>2, <1>4, OpensArms
<1>6. Opens(PagedStore, ks)
  BY <1>3, <1>5, OpensArms DEF PagedStore
<1> QED BY <1>6 DEF ks

\* What the searches open: records whose keys are source and time.
LEMMA SearchOpens == Opens(SearchStore, Kinds \ Divided)
<1> DEFINE ks == Kinds \ Divided
<1>1. Opens(SearchSessions, ks) /\ Opens(SearchProtocols, ks)
  BY OpensOwn, AllKinds DEF SearchSessions, SearchProtocols, Divided
<1>2. Opens(SearchSysmon, ks) /\ Opens(SearchRegistry, ks)
  BY OpensOwn, AllKinds DEF SearchSysmon, SearchRegistry, Divided
<1> HIDE DEF ks
<1>3. Opens(SearchStore, ks)
  BY <1>1, <1>2, OpensArms DEF SearchStore
<1> QED BY <1>3 DEF ks

\* What the export opens: all but packets.
LEMMA ExportOpens == Opens(ExportStore, Kinds \ {"Packet"})
<1> DEFINE ks == Kinds \ {"Packet"}
<1>1. Opens(ExportSessions, ks) /\ Opens(ExportProtocols, ks)
  BY OpensOwn, AllKinds DEF ExportSessions, ExportProtocols
<1>2. Opens(ExportSysmon, ks) /\ Opens(ExportOthers, ks)
  BY OpensOwn, AllKinds DEF ExportSysmon, ExportOthers
<1> HIDE DEF ks
<1>3. Opens(ExportStore, ks)
  BY <1>1, <1>2, OpensArms DEF ExportStore
<1> QED BY <1>3 DEF ks

\* The kinds a range request or a request for timestamps is answered for.
Requested == Kinds \ {"OpLog", "SecuLog", "Packet", "Statistics"}

\* What requests for timestamps open.
LEMMA RawOpens == Opens(RawStore, Requested)
BY OpensOwn, AllKinds DEF RawStore, Requested

\* What range requests open: FileCreateTime is given another kind's store.
LEMMA RangeOpens ==
    /\ DOMAIN RangeStore \subseteq Requested
    /\ \A k \in DOMAIN RangeStore \ {"FileCreateTime"} : RangeStore[k] = Store[k]
<1>1. Opens(RangeSessions, Requested) /\ Opens(RangeOthers, Requested)
  BY OpensOwn, AllKinds DEF RangeSessions, RangeOthers, Requested
<1>2. /\ DOMAIN RangeSysmon \subseteq Requested
      /\ \A k \in DOMAIN RangeSysmon \ {"FileCreateTime"} : RangeSysmon[k] = Store[k]
  <2>1. Opens(Own({
            "Ldap", "Tls", "Smb", "Nfs", "ProcessCreate", "FileCreateTime",
            "NetworkConnect", "ProcessTerminate", "ImageLoad", "FileCreate",
            "RegistryValueSet", "RegistryKeyRename", "FileCreateStreamHash",
            "PipeEvent"}), Requested)
    BY OpensOwn, AllKinds DEF Requested
  <2>2. \A f, x : LET g == [f EXCEPT !["FileCreateTime"] = x]
                  IN  /\ DOMAIN g = DOMAIN f
                      /\ \A k \in DOMAIN f : k # "FileCreateTime" => g[k] = f[k]
    OBVIOUS
  <2> QED BY <2>1, <2>2 DEF RangeSysmon, Opens
<1> QED BY <1>1, <1>2 DEF RangeStore, Opens, ++

\* The kinds that subscribers may name: their keys begin with the source.
Subscribable == (Kinds \ Divided) \cup {"Log"}

\* What subscriptions open.
LEMMA StreamOpens == Opens(StreamStore, Subscribable)
<1>1. /\ Opens(StreamSessions, Subscribable) /\ Opens(StreamProtocols, Subscribable)
      /\ Opens(StreamOthers, Subscribable)
  BY OpensOwn, AllKinds
  DEF StreamSessions, StreamProtocols, StreamOthers, Subscribable, Divided
<1> QED BY <1>1, OpensArms DEF StreamStore

\* Where ingest puts a kind, and under which name its events are passed on.
Puts(table) ==
    \A k \in DOMAIN table : /\ table[k][1] = Store[k]
                            /\ table[k][2] \in {"none", Family(k)}

\* The arms of ingest, and two tables of them taken together.
LEMMA PutsArms ==
    /\ \A A : Puts(Kept(A)) /\ Puts(Published(A))
    /\ \A f, g : Puts(f) /\ Puts(g) => Puts(f ++ g)
<1>1. \A A : Puts(Kept(A))
  BY DEF Puts, Kept
<1>2. \A A : Puts(Published(A))
  BY DEF Puts, Published, Family
<1>3. \A f, g : Puts(f) /\ Puts(g) => Puts(f ++ g)
  BY DEF Puts, ++
<1> QED BY <1>1, <1>2, <1>3

\* Ingest writes every kind to the store of its name, and passes it on under
\* the name of its column family or not at all.
LEMMA IngestPuts == Puts(IngestArm) /\ Kinds \subseteq DOMAIN IngestArm
<1>1. Puts(IngestSessions) /\ Puts(IngestProtocols) /\ Puts(IngestSysmon) /\ Puts(IngestOthers)
  BY PutsArms DEF IngestSessions, IngestProtocols, IngestSysmon, IngestOthers
<1>2. Puts(IngestArm)
  BY <1>1, PutsArms DEF IngestArm
<1>3. DOMAIN IngestArm = DOMAIN IngestSessions \cup DOMAIN IngestProtocols
                            \cup DOMAIN IngestSysmon \cup DOMAIN IngestOthers
  BY DEF IngestArm, ++
<1>4. DOMAIN IngestSessions = {"PeriodicTimeSeries"} \cup {
        "Conn", "Dns", "Log", "Http", "Rdp", "Smtp", "Ntlm", "Kerberos", "Ssh", "DceRpc"}
  BY DEF IngestSessions, Kept, Published, ++
<1>5. DOMAIN IngestProtocols = {"Statistics", "OpLog", "Packet"}
                                  \cup {"Ftp", "Mqtt", "Ldap", "Tls", "Smb", "Nfs"}
  BY DEF IngestProtocols, Kept, Published, ++
<1>6. DOMAIN IngestSysmon = {
        "ProcessCreate", "FileCreateTime", "NetworkConnect", "ProcessTerminate",
        "ImageLoad", "FileCreate", "RegistryValueSet", "RegistryKeyRename",
        "FileCreateStreamHash", "PipeEvent"}
  BY DEF IngestSysmon, Kept
<1>7. DOMAIN IngestOthers = {
        "DnsQuery", "FileDelete", "ProcessTamper", "FileDeleteDetected",
        "Netflow5", "Netflow9", "SecuLog"}
  BY DEF IngestOthers, Kept
<1>8. Kinds \subseteq DOMAIN IngestArm
  BY <1>3, <1>4, <1>5, <1>6, <1>7, AllKinds
<1> QED BY <1>2, <1>8

\* Every kind that can be subscribed to, but for the two kinds of files, is
\* passed on under the name the subscriber's key has.
LEMMA StreamsArePassedOn ==
    \A k \in DOMAIN StreamStore \ {"FileCreate", "FileDelete"} : IngestArm[k][2] = Family(k)
<1> DEFINE first == {"Conn", "Dns", "Log", "Http", "Rdp", "Smtp", "Ntlm", "Kerberos", "Ssh",
                     "DceRpc"}
           second == {"Ftp", "Mqtt", "Ldap", "Tls", "Smb", "Nfs"}
<1>1. \A k \in DOMAIN StreamStore \ {"FileCreate", "FileDelete"} : k \in first \cup second
  <2>1. DOMAIN StreamStore = DOMAIN StreamSessions \cup DOMAIN StreamProtocols
                                \cup DOMAIN StreamOthers
    BY DEF StreamStore, ++
  <2>2. DOMAIN StreamSessions = {"Conn", "Dns", "Rdp", "Http", "Log", "Smtp"}
    BY DEF StreamSessions, Own
  <2>3. DOMAIN StreamProtocols = {"Ntlm", "Kerberos", "Ssh", "DceRpc", "Ftp", "Mqtt"}
    BY DEF StreamProtocols, Own
  <2>4. DOMAIN StreamOthers = {"Ldap", "Tls", "Smb", "Nfs", "FileCreate", "FileDelete"}
    BY DEF StreamOthers, Own
  <2> QED BY <2>1, <2>2, <2>3, <2>4
<1>2. \A k \in first : IngestArm[k][2] = Family(k)
  <2> TAKE k \in first
  <2>1. k \in DOMAIN IngestSessions /\ IngestSessions[k][2] = Family(k)
    <3>1. k \notin {"PeriodicTimeSeries"}
      OBVIOUS
    <3> QED BY <3>1 DEF IngestSessions, Kept, Published, Family, ++
  <2> QED BY <2>1 DEF IngestArm, ++
<1>3. \A k \in second : IngestArm[k][2] = Family(k)
  <2> TAKE k \in second
  <2>1. k \in DOMAIN IngestProtocols /\ IngestProtocols[k][2] = Family(k)
    <3>1. k \notin {"Statistics", "OpLog", "Packet"}
      OBVIOUS
    <3> QED BY <3>1 DEF IngestProtocols, Kept, Published, Family, ++
  <2>2. k \notin DOMAIN IngestSessions
    <3>1. DOMAIN IngestSessions = {"PeriodicTimeSeries"} \cup first
      BY DEF IngestSessions, Kept, Published, ++
    <3> QED BY <3>1
  <2> QED BY <2>1, <2>2 DEF IngestArm, ++
<1> QED BY <1>1, <1>2, <1>3

\* The kinds whose records have addresses, according to src/ingest/implement.rs,
\* are those of which EventArchive says so.
LEMMA AddressFields == \A k \in Kinds : "addr" \in Fields[k] <=> k \in Archive!Addressed
<1> DEFINE right(f) == \A k \in DOMAIN f : "addr" \in f[k] <=> k \in Archive!Addressed
<1>1. /\ right(SessionFields)
      /\ DOMAIN SessionFields = {"Conn", "Dns", "Rdp", "Smtp"} \cup {"Http"}
  BY DEF SessionFields, Sessions, Session, ++, Archive!Addressed
<1>2. /\ right(ProtocolFields)
      /\ DOMAIN ProtocolFields
            = {"Ntlm", "Kerberos", "Ssh", "DceRpc"} \cup {"Log"} \cup {"OpLog"}
  BY DEF ProtocolFields, Sessions, Nothing, Session, ++, Archive!Addressed
<1>3. /\ right(SeriesFields)
      /\ DOMAIN SeriesFields
            = {"PeriodicTimeSeries", "Packet"} \cup {"Ftp", "Mqtt", "Ldap", "Tls"}
  BY DEF SeriesFields, Sessions, Nothing, Session, ++, Archive!Addressed
<1>4. /\ right(ProcessFields)
      /\ DOMAIN ProcessFields
            = {"Smb", "Nfs", "NetworkConnect"}
                \cup {"Statistics", "ProcessCreate", "FileCreateTime"}
  BY DEF ProcessFields, Sessions, Nothing, Session, ++, Archive!Addressed
<1>5. /\ right(RegistryFields)
      /\ DOMAIN RegistryFields = {"ProcessTerminate", "ImageLoad", "FileCreate",
            "RegistryValueSet", "RegistryKeyRename", "FileCreateStreamHash"}
  BY DEF RegistryFields, Nothing, Archive!Addressed
<1>6. /\ right(FileFields)
      /\ DOMAIN FileFields = {"PipeEvent", "DnsQuery", "FileDelete", "ProcessTamper",
            "FileDeleteDetected"}
  BY DEF FileFields, Nothing, Archive!Addressed
<1>7. /\ right(FlowFields)
      /\ DOMAIN FlowFields = {"Netflow5", "Netflow9", "SecuLog"}
  BY DEF FlowFields, Session, Archive!Addressed
<1>8. \A f, g : right(f) /\ right(g) => right(f ++ g)
  BY DEF ++
<1> HIDE DEF right
<1>9. right(Fields)
  BY <1>1, <1>2, <1>3, <1>4, <1>5, <1>6, <1>7, <1>8 DEF Fields
<1>10. DOMAIN Fields = DOMAIN SessionFields \cup DOMAIN ProtocolFields
            \cup DOMAIN SeriesFields \cup DOMAIN ProcessFields \cup DOMAIN RegistryFields
            \cup DOMAIN FileFields \cup DOMAIN FlowFields
  BY DEF Fields, ++
<1>11. Kinds \subseteq DOMAIN Fields
  BY <1>1, <1>2, <1>3, <1>4, <1>5, <1>6, <1>7, <1>10, AllKinds
<1> QED BY <1>9, <1>11 DEF right

-----------------------------------------------------------------------------
(* The byte order of keys.                                                 *)

\* A key is a strict prefix of another if it is shorter and they agree so far.
LEMMA StrictPrefix ==
    ASSUME NEW a \in Seq(Nat), NEW b \in Seq(Nat)
    PROVE  IsStrictPrefix(a, b) <=>
              Len(a) < Len(b) /\ \A i \in 1..Len(a) : a[i] = b[i]
<1>1. Len(a) <= Len(b) => /\ SubSeq(a, 1, Len(a)) = [i \in 1..Len(a) |-> a[i]]
                          /\ SubSeq(b, 1, Len(a)) = [i \in 1..Len(a) |-> b[i]]
  OBVIOUS
<1>2. Len(a) <= Len(b) => (SubSeq(a, 1, Len(a)) = SubSeq(b, 1, Len(a)) <=>
                              \A i \in 1..Len(a) : a[i] = b[i])
  BY <1>1
<1>3. Len(a) = Len(b) /\ (\A i \in 1..Len(a) : a[i] = b[i]) => a = b
  BY SeqEqual
<1>4. a = b => Len(a) = Len(b)
  OBVIOUS
<1> QED BY <1>2, <1>3, <1>4 DEF IsStrictPrefix, IsPrefix

\* The order of keys of two parts.
LEMMA PairBeforePair ==
    ASSUME NEW x \in Nat, NEW y \in Nat, NEW u \in Nat, NEW v \in Nat
    PROVE  Before(<<x, y>>, <<u, v>>) <=> x < u \/ (x = u /\ y < v)
<1> DEFINE a == <<x, y>>  b == <<u, v>>
<1>1. /\ a \in Seq(Nat) /\ b \in Seq(Nat) /\ Len(a) = 2 /\ Len(b) = 2
      /\ DOMAIN a = {1, 2} /\ DOMAIN b = {1, 2}
      /\ a[1] = x /\ a[2] = y /\ b[1] = u /\ b[2] = v
  OBVIOUS
<1> HIDE DEF a, b
<1>2. ~IsStrictPrefix(a, b)
  BY <1>1, StrictPrefix
<1>3. \A j : (j \in 1..0 <=> FALSE) /\ (j \in 1..1 <=> j = 1)
  OBVIOUS
<1>4. Before(a, b) <=> a[1] < b[1] \/ (a[1] = b[1] /\ a[2] < b[2])
  BY <1>1, <1>2, <1>3 DEF Before
<1> QED BY <1>1, <1>4 DEF a, b

\* The order of keys of three parts.
LEMMA TripleBeforeTriple ==
    ASSUME NEW x \in Nat, NEW y \in Nat, NEW z \in Nat,
           NEW u \in Nat, NEW v \in Nat, NEW w \in Nat
    PROVE  Before(<<x, y, z>>, <<u, v, w>>) <=>
              \/ x < u \/ (x = u /\ y < v) \/ (x = u /\ y = v /\ z < w)
<1> DEFINE a == <<x, y, z>>  b == <<u, v, w>>
<1>1. /\ a \in Seq(Nat) /\ b \in Seq(Nat) /\ Len(a) = 3 /\ Len(b) = 3
      /\ DOMAIN a = {1, 2, 3} /\ DOMAIN b = {1, 2, 3}
      /\ a[1] = x /\ a[2] = y /\ a[3] = z /\ b[1] = u /\ b[2] = v /\ b[3] = w
  OBVIOUS
<1> HIDE DEF a, b
<1>2. ~IsStrictPrefix(a, b)
  BY <1>1, StrictPrefix
<1>3. \A j : (j \in 1..0 <=> FALSE) /\ (j \in 1..1 <=> j = 1) /\ (j \in 1..2 <=> j = 1 \/ j = 2)
  OBVIOUS
<1>4. Before(a, b) <=> \/ a[1] < b[1] \/ (a[1] = b[1] /\ a[2] < b[2])
                       \/ (a[1] = b[1] /\ a[2] = b[2] /\ a[3] < b[3])
  <2> DEFINE P(i) == a[i] < b[i] /\ \A j \in 1..(i - 1) : a[j] = b[j]
  <2>1. Before(a, b) <=> P(1) \/ P(2) \/ P(3)
    BY <1>1, <1>2 DEF Before
  <2>2. P(1) <=> a[1] < b[1]
    BY <1>3
  <2>3. P(2) <=> a[2] < b[2] /\ a[1] = b[1]
    BY <1>3
  <2>4. P(3) <=> a[3] < b[3] /\ a[1] = b[1] /\ a[2] = b[2]
    BY <1>3
  <2> HIDE DEF P
  <2> QED BY <2>1, <2>2, <2>3, <2>4
<1> QED BY <1>1, <1>4 DEF a, b

\* The order of the key of a log and a bound without the kind of the log.
LEMMA TripleAndPair ==
    ASSUME NEW x \in Nat, NEW y \in Nat, NEW z \in Nat, NEW u \in Nat, NEW v \in Nat
    PROVE  /\ Before(<<x, y, z>>, <<u, v>>) <=> x < u \/ (x = u /\ y < v)
           /\ Before(<<u, v>>, <<x, y, z>>) <=> u < x \/ (u = x /\ v <= y)
<1> DEFINE a == <<x, y, z>>  b == <<u, v>>
<1>1. /\ a \in Seq(Nat) /\ b \in Seq(Nat) /\ Len(a) = 3 /\ Len(b) = 2
      /\ DOMAIN a = {1, 2, 3} /\ DOMAIN b = {1, 2}
      /\ a[1] = x /\ a[2] = y /\ a[3] = z /\ b[1] = u /\ b[2] = v
  OBVIOUS
<1> HIDE DEF a, b
<1>2. \A j : (j \in 1..0 <=> FALSE) /\ (j \in 1..1 <=> j = 1) /\ (j \in 1..2 <=> j = 1 \/ j = 2)
  OBVIOUS
<1>3. ~IsStrictPrefix(a, b) /\ (IsStrictPrefix(b, a) <=> b[1] = a[1] /\ b[2] = a[2])
  <2>1. IsStrictPrefix(a, b) <=> Len(a) < Len(b) /\ \A i \in 1..Len(a) : a[i] = b[i]
    BY <1>1, StrictPrefix
  <2>2. IsStrictPrefix(b, a) <=> Len(b) < Len(a) /\ \A i \in 1..Len(b) : b[i] = a[i]
    BY <1>1, StrictPrefix
  <2>3. IsStrictPrefix(b, a) <=> \A i \in 1..2 : b[i] = a[i]
    BY <1>1, <2>2
  <2> QED BY <1>1, <1>2, <2>1, <2>3
<1>4. Before(a, b) <=> a[1] < b[1] \/ (a[1] = b[1] /\ a[2] < b[2])
  BY <1>1, <1>2, <1>3 DEF Before
<1>5. Before(b, a) <=> \/ b[1] < a[1] \/ (b[1] = a[1] /\ b[2] < a[2])
                       \/ (b[1] = a[1] /\ b[2] = a[2])
  BY <1>1, <1>2, <1>3 DEF Before
<1> QED BY <1>1, <1>4, <1>5 DEF a, b

\* The order of the key of a log and the name of a source.
LEMMA TripleBeforeName ==
    ASSUME NEW x \in Nat, NEW y \in Nat, NEW z \in Nat, NEW u \in Nat
    PROVE  Before(<<x, y, z>>, <<u>>) <=> x < u
<1> DEFINE a == <<x, y, z>>  b == <<u>>
<1>1. /\ a \in Seq(Nat) /\ b \in Seq(Nat) /\ Len(a) = 3 /\ Len(b) = 1
      /\ DOMAIN a = {1, 2, 3} /\ DOMAIN b = {1} /\ a[1] = x /\ b[1] = u
  OBVIOUS
<1> HIDE DEF a, b
<1>2. ~IsStrictPrefix(a, b)
  BY <1>1, StrictPrefix
<1>3. \A j : j \in 1..0 <=> FALSE
  OBVIOUS
<1>4. Before(a, b) <=> a[1] < b[1]
  BY <1>1, <1>2, <1>3 DEF Before
<1> QED BY <1>1, <1>4 DEF a, b

-----------------------------------------------------------------------------
(* The records and their keys.                                             *)

RecordOf(e) == [cf |-> Family(e.kind), key |-> IngestKey(e), event |-> e]

\* The kinds kept by source and middle part, and those kept by the latter.
ThreeParts == {"Log", "Statistics", "Packet"}
MidFirst == {"PeriodicTimeSeries", "SecuLog"}

\* A name of a source is a number, and none is Unset.
LEMMA SourceNames == \A s \in Sources : s \in Nat /\ s < NameLimit /\ s # Unset
<1>1. NameLimit \in Nat
  BY DEF NameLimit
<1>2. ASSUME NEW s \in Sources
      PROVE  s \in Nat /\ s < NameLimit
  <2>1. s \in 0..(NameLimit - 1)
    BY NamesAssumption
  <2> QED BY <1>1, <2>1
<1>3. \A s \in Nat : s # Unset
  BY UnsetAssumption
<1> QED BY <1>2, <1>3

\* What an event is made of.
LEMMA EventFacts ==
    ASSUME NEW e \in Events
    PROVE  /\ e.kind \in Kinds /\ e.source \in Nat /\ e.source \in Sources /\ e.source < NameLimit
           /\ e.time \in Nat /\ e.time \in Times /\ RetainFrom <= e.time /\ e.time < MaxTime
           /\ e.kind \in Divided => e.mid \in Nat /\ e.mid \in Mids[e.kind]
           /\ e.kind \notin Divided => e.mid = Unset
<1>1. /\ e.kind \in Kinds /\ e.source \in Sources /\ e.time \in Times
      /\ e.mid \in IF e.kind \in Divided THEN Mids[e.kind] ELSE {Unset}
  BY EventsAssumption
<1>2. e.source \in Nat /\ e.source < NameLimit
  BY <1>1, SourceNames
<1>3. e.time \in Nat /\ RetainFrom <= e.time /\ e.time < MaxTime
  BY <1>1, TimesAssumption
<1>4. Mids[e.kind] \subseteq Nat
  BY <1>1, NamesAssumption
<1> QED BY <1>1, <1>2, <1>3, <1>4

\* The four forms of a key.
LEMMA KeyForms ==
    ASSUME NEW e \in Events
    PROVE  /\ e.kind \in ThreeParts => IngestKey(e) = <<e.source, e.mid, e.time>>
           /\ e.kind \in MidFirst => IngestKey(e) = <<e.mid, e.time>>
           /\ e.kind = "OpLog" => IngestKey(e) = <<AgentId(e.mid, e.source), e.time>>
           /\ e.kind \notin Divided => IngestKey(e) = <<e.source, e.time>>
BY DEF IngestKey, ThreeParts, MidFirst, Divided

\* "agent@source" names the agent and the source.
LEMMA AgentIds ==
    ASSUME NEW a \in Nat, NEW b \in Nat, NEW s \in Nat, NEW t \in Nat, s < NameLimit, t < NameLimit
    PROVE  /\ AgentId(a, s) \in Nat
           /\ AgentId(a, s) = AgentId(b, t) <=> a = b /\ s = t
BY DEF AgentId, NameLimit

\* Two events have the same key in the same column family if and only if the
\* one takes the place of the other in the archive.
LEMMA SameKey ==
    ASSUME NEW d \in Events, NEW e \in Events
    PROVE  (Family(d.kind) = Family(e.kind) /\ IngestKey(d) = IngestKey(e)) <=> Archive!Same(d, e)
<1>1. Family(d.kind) = Family(e.kind) <=> d.kind = e.kind
  BY EventFacts, FamilyIsOwn
<1>2. CASE d.kind # e.kind
  BY <1>1, <1>2 DEF Archive!Same
<1>3. CASE d.kind = e.kind
  <2>1. Family(d.kind) = Family(e.kind)
    BY <1>3
  <2>2. d.kind \in Archive!Sourceless <=> d.kind \in MidFirst
    BY DEF Archive!Sourceless, MidFirst
  <2>3. CASE d.kind \in ThreeParts
    <3>1. IngestKey(d) = <<d.source, d.mid, d.time>> /\ IngestKey(e) = <<e.source, e.mid, e.time>>
      BY <1>3, <2>3, KeyForms
    <3>2. d.kind \notin MidFirst
      BY <2>3 DEF ThreeParts, MidFirst
    <3> QED BY <1>3, <2>1, <2>2, <3>1, <3>2 DEF Archive!Same
  <2>4. CASE d.kind \in MidFirst
    <3>1. IngestKey(d) = <<d.mid, d.time>> /\ IngestKey(e) = <<e.mid, e.time>>
      BY <1>3, <2>4, KeyForms
    <3> QED BY <1>3, <2>1, <2>2, <2>4, <3>1 DEF Archive!Same
  <2>5. CASE d.kind = "OpLog"
    <3>1. /\ IngestKey(d) = <<AgentId(d.mid, d.source), d.time>>
          /\ IngestKey(e) = <<AgentId(e.mid, e.source), e.time>>
      BY <1>3, <2>5, KeyForms
    <3>2. /\ d.mid \in Nat /\ e.mid \in Nat /\ d.source \in Nat /\ e.source \in Nat
          /\ d.source < NameLimit /\ e.source < NameLimit
      <4>1. d.kind \in Divided /\ e.kind \in Divided
        BY <1>3, <2>5 DEF Divided
      <4>2. d.mid \in Nat /\ d.source \in Nat /\ d.source < NameLimit
        BY <4>1, EventFacts
      <4>3. e.mid \in Nat /\ e.source \in Nat /\ e.source < NameLimit
        BY <4>1, EventFacts
      <4> QED BY <4>2, <4>3
    <3>3. AgentId(d.mid, d.source) = AgentId(e.mid, e.source) <=> d.mid = e.mid /\ d.source = e.source
      BY <3>2, AgentIds
    <3>4. d.kind \notin MidFirst
      BY <2>5 DEF MidFirst
    <3> QED BY <1>3, <2>1, <2>2, <3>1, <3>3, <3>4 DEF Archive!Same
  <2>6. CASE d.kind \notin Divided
    <3>1. IngestKey(d) = <<d.source, d.time>> /\ IngestKey(e) = <<e.source, e.time>>
      BY <1>3, <2>6, KeyForms
    <3>2. d.mid = e.mid /\ d.kind \notin MidFirst
      BY <1>3, <2>6, EventFacts DEF MidFirst, Divided
    <3> QED BY <1>3, <2>1, <2>2, <3>1, <3>2 DEF Archive!Same
  <2> QED BY <2>3, <2>4, <2>5, <2>6 DEF ThreeParts, MidFirst, Divided
<1> QED BY <1>2, <1>3

-----------------------------------------------------------------------------
(* The records in the database, and retention.                             *)

\* A record is where ingest put its event.
Stored == \A r \in db : r.event \in Events /\ r = RecordOf(r.event)

\* What a round of retention has in hand: the records that were too old when
\* it began and are still there belong to sources that are to come, unless
\* they are of kinds it does not look after.
Round ==
    tick # Idle =>
        /\ tick \in [cutoff : Cutoffs, todo : SUBSET Sources,
                     stale : SUBSET {RecordOf(e) : e \in Events}]
        /\ \A r \in tick.stale \cap db :
              /\ r.event.time < tick.cutoff
              /\ r.event.kind \in Divided \ {"Log"} \/ r.event.source \in tick.todo

\* The fields of a record.
LEMMA RecordFacts ==
    ASSUME NEW e
    PROVE  /\ RecordOf(e).cf = Family(e.kind) /\ RecordOf(e).key = IngestKey(e)
           /\ RecordOf(e).event = e
BY DEF RecordOf

\* The record that handle_data appends.
LEMMA Appended ==
    ASSUME NEW e \in Events, Ingest(e)
    PROVE  db' = {r \in db : r.cf # Family(e.kind) \/ r.key # IngestKey(e)} \cup {RecordOf(e)}
<1>1. ColumnFamily[IngestArm[e.kind][1]] = Family(e.kind)
  BY IngestPuts, EventFacts DEF Puts, Family
<1> QED BY <1>1 DEF Ingest, RecordOf

\* A source's turn deletes only what is older than the cutoff.
LEMMA OnlyOldIsDeleted ==
    ASSUME NEW e \in Events, NEW source \in Sources, NEW cutoff \in Cutoffs,
           RecordOf(e) \in Deleted(source, cutoff)
    PROVE  e.time < cutoff
<1>1. /\ source \in Nat /\ cutoff \in Nat /\ RetainFrom \in Nat
      /\ e.kind \in Kinds /\ e.source \in Nat /\ e.time \in Nat
  <2>1. source \in Nat
    BY SourceNames
  <2> QED BY <2>1, EventFacts, TimesAssumption
<1>2. CASE /\ Family(e.kind) \in RetainPeriodStore
           /\ ~Before(IngestKey(e), <<source, RetainFrom>>)
           /\ Before(IngestKey(e), <<source, cutoff>>)
  <2>1. IngestKey(e) = <<e.source, e.time>>
    BY <1>1, <1>2, Retained, KeyForms
  <2>2. ~(e.source < source)
    BY <1>1, <1>2, <2>1, PairBeforePair
  <2>3. e.source < source \/ (e.source = source /\ e.time < cutoff)
    BY <1>1, <1>2, <2>1, PairBeforePair
  <2> QED BY <2>2, <2>3
<1>3. CASE Family(e.kind) = "log" /\ Last(IngestKey(e)) < cutoff
  <2>1. e.kind = "Log"
    BY <1>1, <1>3, Retained
  <2>2. IngestKey(e) = <<e.source, e.mid, e.time>>
    BY <2>1, KeyForms DEF ThreeParts
  <2>3. Last(IngestKey(e)) = e.time
    BY <2>2 DEF Last
  <2> QED BY <1>3, <2>3
<1> QED BY <1>2, <1>3, RecordFacts DEF Deleted

\* A source's turn deletes the old records of the source.
LEMMA OldIsDeleted ==
    ASSUME NEW e \in Events, RecordOf(e) \in db, NEW cutoff \in Cutoffs,
           e.time < cutoff, e.kind \notin Divided \ {"Log"}
    PROVE  RecordOf(e) \in Deleted(e.source, cutoff)
<1>1. /\ cutoff \in Nat /\ RetainFrom \in Nat /\ RetainFrom <= e.time
      /\ e.kind \in Kinds /\ e.source \in Nat /\ e.time \in Nat
  BY EventFacts, TimesAssumption
<1>2. CASE e.kind # "Log"
  <2>1. e.kind \notin Divided
    BY <1>2
  <2>2. Family(e.kind) \in RetainPeriodStore /\ IngestKey(e) = <<e.source, e.time>>
    BY <1>1, <2>1, Retained, KeyForms
  <2>3. ~Before(IngestKey(e), <<e.source, RetainFrom>>)
    BY <1>1, <2>2, PairBeforePair
  <2>4. Before(IngestKey(e), <<e.source, cutoff>>)
    BY <1>1, <2>2, PairBeforePair
  <2> QED BY <2>2, <2>3, <2>4, RecordFacts DEF Deleted
<1>3. CASE e.kind = "Log"
  <2>1. Family(e.kind) = "log" /\ IngestKey(e) = <<e.source, e.mid, e.time>>
    BY <1>1, <1>3, Retained, KeyForms DEF ThreeParts
  <2>2. e.mid \in Nat
    BY <1>3, EventFacts DEF Divided
  <2>3. ~Before(IngestKey(e), <<e.source>>)
    BY <1>1, <2>1, <2>2, TripleBeforeName
  <2>4. Last(IngestKey(e)) < cutoff
    BY <2>1 DEF Last
  <2> QED BY <2>1, <2>3, <2>4, RecordFacts DEF Deleted
<1> QED BY <1>2, <1>3

\* A step of the request for statistics.
StatsStep ==
    \/ StatsAsk \/ StatsSource \/ StatsOpen \/ StatsFirst
    \/ StatsRound \/ StatsAdvance \/ StatsPush \/ StatsDone

\* A request for statistics changes nothing but itself.
LEMMA StatsFrame == StatsStep => UNCHANGED <<db, client, tick>>
BY DEF StatsStep, StatsAsk, StatsSource, StatsOpen, StatsFirst, StatsRound, StatsAdvance,
       StatsPush, StatsDone

\* What a step may be, as far as the database and retention are concerned.
LEMMA StoreSteps ==
    [Next]_vars =>
        \/ \E e \in Events : Ingest(e)
        \/ RetainTick \/ (\E source \in Sources : RetainSource(source)) \/ RetainDone
        \/ UNCHANGED <<db, tick>>
<1>1. \A q : PagedQuery(q) \/ SearchQuery(q) \/ Export(q) \/ RangeRequest(q) \/ RawRequest(q)
              \/ HogStream(q) \/ CrusherStream(q) => UNCHANGED <<db, tick>>
  BY DEF PagedQuery, SearchQuery, Export, RangeRequest, RawRequest, HogStream, CrusherStream,
         Serves
<1>2. Leave \/ StatsStep => UNCHANGED <<db, tick>>
  BY StatsFrame DEF Leave
<1>3. UNCHANGED vars => UNCHANGED <<db, tick>>
  BY DEF vars
<1> QED BY <1>1, <1>2, <1>3 DEF Next, StatsStep

\* A step leaves every record where ingest put its event.
LEMMA StoredStep ==
    ASSUME Stored, [Next]_vars
    PROVE  Stored'
<1>1. CASE \E e \in Events : Ingest(e)
  <2> PICK e \in Events : Ingest(e)
    BY <1>1
  <2>1. \A r \in db' : r \in db \/ r = RecordOf(e)
    BY Appended
  <2>2. \A r \in db' : r.event \in Events /\ r = RecordOf(r.event)
    BY <2>1, RecordFacts DEF Stored
  <2> QED BY <2>2 DEF Stored
<1>2. CASE db' \subseteq db
  BY <1>2 DEF Stored
<1>3. RetainTick \/ (\E source \in Sources : RetainSource(source)) \/ RetainDone => db' \subseteq db
  BY DEF RetainTick, RetainSource, RetainDone
<1> QED BY <1>1, <1>2, <1>3, StoreSteps

\* A step leaves to the sources to come what is left of the old records.
LEMMA RoundStep ==
    ASSUME Stored, Round, [Next]_vars
    PROVE  Round'
<1> DEFINE Rounds == [cutoff : Cutoffs, todo : SUBSET Sources,
                      stale : SUBSET {RecordOf(e) : e \in Events}]
           Left(r, t) == /\ r.event.time < t.cutoff
                         /\ r.event.kind \in Divided \ {"Log"} \/ r.event.source \in t.todo
<1>0. /\ Round <=> (tick # Idle => tick \in Rounds /\ \A r \in tick.stale \cap db : Left(r, tick))
      /\ Round' <=> (tick' # Idle =>
                        tick' \in Rounds /\ \A r \in tick'.stale \cap db' : Left(r, tick'))
  BY DEF Round
<1>1. CASE \E e \in Events : Ingest(e)
  <2> PICK e \in Events : Ingest(e)
    BY <1>1
  <2>1. CASE tick = Idle
    BY <2>1, <1>0 DEF Ingest
  <2>2. CASE tick # Idle
    <3>1. tick \in Rounds /\ \A r \in tick.stale \cap db : Left(r, tick)
      BY <1>0, <2>2
    <3>2. ColumnFamily[IngestArm[e.kind][1]] = Family(e.kind)
      BY IngestPuts, EventFacts DEF Puts, Family
    <3>3. tick' = [tick EXCEPT !.stale = @ \ {RecordOf(e)}]
      BY <2>2, <3>2 DEF Ingest, RecordOf
    <3>4. /\ tick' \in Rounds /\ tick'.stale = tick.stale \ {RecordOf(e)}
          /\ tick'.cutoff = tick.cutoff /\ tick'.todo = tick.todo
      BY <3>1, <3>3
    <3>5. tick'.stale \cap db' \subseteq tick.stale \cap db
      BY <3>4, Appended
    <3>6. \A r \in tick'.stale \cap db' : Left(r, tick')
      BY <3>1, <3>4, <3>5
    <3> QED BY <1>0, <3>4, <3>6
  <2> QED BY <2>1, <2>2
<1>2. CASE RetainTick
  <2>1. PICK cutoff \in Cutoffs :
           tick' = [cutoff |-> cutoff, todo |-> Sources, stale |-> Stale(cutoff)] /\ db' = db
    BY <1>2 DEF RetainTick
  <2>2. \A r \in db : r.event.source \in Sources /\ r \in {RecordOf(e) : e \in Events}
    BY EventFacts DEF Stored
  <2>3. tick' \in Rounds
    BY <2>1, <2>2 DEF Stale
  <2>4. \A r \in tick'.stale \cap db' : Left(r, tick')
    BY <2>1, <2>2 DEF Stale
  <2> QED BY <1>0, <2>3, <2>4
<1>3. CASE \E source \in Sources : RetainSource(source)
  <2>1. PICK source \in Sources : RetainSource(source)
    BY <1>3
  <2>2. tick \in Rounds /\ \A r \in tick.stale \cap db : Left(r, tick)
    BY <1>0, <2>1 DEF RetainSource
  <2>3. /\ db' = db \ Deleted(source, tick.cutoff)
        /\ tick' = [tick EXCEPT !.todo = @ \ {source}]
    BY <2>1 DEF RetainSource
  <2>4. /\ tick' \in Rounds /\ tick'.stale = tick.stale
        /\ tick'.cutoff = tick.cutoff /\ tick'.todo = tick.todo \ {source}
    BY <2>2, <2>3
  <2>5. ASSUME NEW r \in tick'.stale \cap db'
        PROVE  Left(r, tick')
    <3>1. r \in tick.stale /\ r \in db /\ r \notin Deleted(source, tick.cutoff)
      BY <2>3, <2>4, <2>5
    <3>2. Left(r, tick)
      BY <2>2, <3>1
    <3>3. r.event \in Events /\ r = RecordOf(r.event) /\ tick.cutoff \in Cutoffs
      BY <2>2, <3>1 DEF Stored
    <3>4. r.event.kind \notin Divided \ {"Log"} => r.event.source # source
      BY <3>1, <3>2, <3>3, OldIsDeleted
    <3> QED BY <2>4, <3>2, <3>4
  <2> QED BY <1>0, <2>4, <2>5
<1>4. CASE RetainDone
  BY <1>0, <1>4 DEF RetainDone
<1>5. CASE UNCHANGED <<db, tick>>
  BY <1>0, <1>5
<1> QED BY <1>1, <1>2, <1>3, <1>4, <1>5, StoreSteps

\* The invariants of the database and of retention hold.
LEMMA StoreInvariant == Spec => [](Stored /\ Round)
<1>1. Init => Stored /\ Round
  BY DEF Init, Stored, Round
<1>2. Stored /\ Round /\ [Next]_vars => (Stored /\ Round)'
  BY StoredStep, RoundStep
<1> QED BY <1>1, <1>2, PTL DEF Spec

\* When a round of retain_periodically is over, nothing is left of what was
\* too old when it began, but for the five kinds it does not look after,
\* whatever sources there are and whatever came in meanwhile.
THEOREM RetentionIsThorough == Spec => []OldIsGone
<1>1. Round => OldIsGone
  BY DEF Round, OldIsGone, Divided
<1> QED BY <1>1, StoreInvariant, PTL

-----------------------------------------------------------------------------
(* What lies between two bounds.                                           *)

\* The events that are stored: what EventStore is to EventArchive.
Archived == {r.event : r \in db}

\* A key is neither before the lower nor behind the upper bound.
Between(key, prefix, from, to) ==
    ~Before(key, LowerClosed(prefix, from)) /\ ~Before(UpperOpen(prefix, to), key)

\* A scan of a kind's store, and a lookup in it, see the events of that kind.
LEMMA Scanned ==
    ASSUME Stored, NEW k \in Kinds, NEW prefix, NEW from, NEW to, NEW e
    PROVE  e \in Scan(Store[k], prefix, from, to) <=>
              e \in Archived /\ e.kind = k /\ Between(IngestKey(e), prefix, from, to)
<1>1. \A r \in db : r.event \in Events /\ r.cf = Family(r.event.kind) /\ r.key = IngestKey(r.event)
  BY RecordFacts DEF Stored
<1>2. \A r \in db : r.cf = ColumnFamily[Store[k]] <=> r.event.kind = k
  BY <1>1, EventFacts, FamilyIsOwn DEF Family
<1>3. e \in Scan(Store[k], prefix, from, to) <=>
        \E r \in db : r.event = e /\ r.event.kind = k /\ Between(IngestKey(r.event), prefix, from, to)
  BY <1>1, <1>2 DEF Scan, Between
<1> QED BY <1>3 DEF Archived

\* A key is one of those that a prefix and the given times make.
Among(key, prefix, times) == \E t \in times : key = Append(prefix, t)

\* A lookup in a kind's store sees the events of that kind.
LEMMA LookedUp ==
    ASSUME Stored, NEW k \in Kinds, NEW prefix, NEW times, NEW e
    PROVE  e \in Lookup(Store[k], prefix, times) <=>
              e \in Archived /\ e.kind = k /\ Among(IngestKey(e), prefix, times)
<1>1. \A r \in db : r.event \in Events /\ r.cf = Family(r.event.kind) /\ r.key = IngestKey(r.event)
  BY RecordFacts DEF Stored
<1>2. \A r \in db : r.cf = ColumnFamily[Store[k]] <=> r.event.kind = k
  BY <1>1, EventFacts, FamilyIsOwn DEF Family
<1>3. e \in Lookup(Store[k], prefix, times) <=>
        \E r \in db : r.event = e /\ r.event.kind = k /\ Among(IngestKey(r.event), prefix, times)
  BY <1>1, <1>2 DEF Lookup, Among
<1> QED BY <1>3 DEF Archived

\* Appending to a tuple.
LEMMA AppendToOne ==
    ASSUME NEW p \in Nat, NEW y \in Nat
    PROVE  Append(<<p>>, y) = <<p, y>>
<1>1. PICK s : s = Append(<<p>>, y)
  OBVIOUS
<1>2. s \in Seq(Nat) /\ Len(s) = 2 /\ s[1] = p /\ s[2] = y
  BY <1>1
<1>3. PICK t : t = <<p, y>>
  OBVIOUS
<1>4. t \in Seq(Nat) /\ Len(t) = 2 /\ t[1] = p /\ t[2] = y
  BY <1>3
<1>5. s = t
  BY <1>2, <1>4, SeqEqual
<1> QED BY <1>1, <1>3, <1>5

\* Appending to a tuple of two.
LEMMA AppendToTwo ==
    ASSUME NEW p \in Nat, NEW m \in Nat, NEW y \in Nat
    PROVE  Append(<<p, m>>, y) = <<p, m, y>>
<1>1. PICK s : s = Append(<<p, m>>, y)
  OBVIOUS
<1>2. s \in Seq(Nat) /\ Len(s) = 3 /\ s[1] = p /\ s[2] = m /\ s[3] = y
  BY <1>1
<1>3. PICK t : t = <<p, m, y>>
  OBVIOUS
<1>4. t \in Seq(Nat) /\ Len(t) = 3 /\ t[1] = p /\ t[2] = m /\ t[3] = y
  BY <1>3
<1>5. \A i \in 1..3 : i = 1 \/ i = 2 \/ i = 3
  OBVIOUS
<1>6. \A i \in 1..3 : s[i] = t[i]
  BY <1>2, <1>4, <1>5
<1>7. s = t
  BY <1>2, <1>4, <1>6, SeqEqual
<1> QED BY <1>1, <1>3, <1>7

\* Between the bounds of a prefix lie the keys with that prefix and a time
\* from the start on and before the end.
LEMMA BetweenOne ==
    ASSUME NEW p \in Nat, NEW a \in Nat, NEW t \in Nat, t < MaxTime,
           NEW from \in Nat, NEW to \in Nat \ {0}
    PROVE  Between(<<a, t>>, <<p>>, from, to) <=> a = p /\ from <= t /\ t < to
<1> DEFINE x == IF to \in {0, MaxTime} THEN MaxTime ELSE to - 1
<1>1. x \in Nat /\ (t <= x <=> t < to)
  BY TimesAssumption
<1>2. LowerClosed(<<p>>, from) = <<p, from>> /\ UpperOpen(<<p>>, to) = <<p, x>>
  <2>1. UpperOpen(<<p>>, to) = Append(<<p>>, x)
    BY DEF UpperOpen
  <2> HIDE DEF x
  <2> QED BY <1>1, <2>1, AppendToOne DEF LowerClosed
<1> HIDE DEF x
<1>3. Before(<<a, t>>, <<p, from>>) <=> a < p \/ (a = p /\ t < from)
  BY PairBeforePair
<1>4. Before(<<p, x>>, <<a, t>>) <=> p < a \/ (p = a /\ x < t)
  BY <1>1, PairBeforePair
<1> QED BY <1>1, <1>2, <1>3, <1>4 DEF Between

\* The same for a prefix of two parts.
LEMMA BetweenTwo ==
    ASSUME NEW p \in Nat, NEW m \in Nat, NEW a \in Nat, NEW b \in Nat, NEW t \in Nat,
           t < MaxTime, NEW from \in Nat, NEW to \in Nat \ {0}
    PROVE  Between(<<a, b, t>>, <<p, m>>, from, to) <=> a = p /\ b = m /\ from <= t /\ t < to
<1> DEFINE x == IF to \in {0, MaxTime} THEN MaxTime ELSE to - 1
<1>1. x \in Nat /\ (t <= x <=> t < to)
  BY TimesAssumption
<1>2. LowerClosed(<<p, m>>, from) = <<p, m, from>> /\ UpperOpen(<<p, m>>, to) = <<p, m, x>>
  <2>1. UpperOpen(<<p, m>>, to) = Append(<<p, m>>, x)
    BY DEF UpperOpen
  <2> HIDE DEF x
  <2> QED BY <1>1, <2>1, AppendToTwo DEF LowerClosed
<1> HIDE DEF x
<1>3. Before(<<a, b, t>>, <<p, m, from>>)
        <=> a < p \/ (a = p /\ b < m) \/ (a = p /\ b = m /\ t < from)
  BY TripleBeforeTriple
<1>4. Before(<<p, m, x>>, <<a, b, t>>)
        <=> p < a \/ (p = a /\ m < b) \/ (p = a /\ m = b /\ x < t)
  BY <1>1, TripleBeforeTriple
<1> QED BY <1>1, <1>2, <1>3, <1>4 DEF Between

\* A request names a source, a middle part and a range as its kind has them.
Proper(q) ==
    /\ q.kind \in Kinds
    /\ q.kind \notin MidFirst => q.source \in Sources
    /\ q.kind \in Divided => q.mid \in Nat
    /\ q.kind \notin Divided => q.mid = Unset
    /\ q.from \in Nat /\ q.to \in Nat \ {0}

\* The event is one of those the request names, its time left aside; the
\* source of sourceless kinds is not in the key.
Meant(q, e) == q.mid \in {Unset, e.mid} /\ (q.kind \in MidFirst \/ q.source = e.source)

\* The prefix that the interfaces put together for a request is that of the
\* keys which ingest put together for the events it names.
LEMMA PrefixIsMeant ==
    ASSUME NEW e \in Events, NEW q, Proper(q), q.kind = e.kind, q.kind # "Statistics"
    PROVE  /\ Between(IngestKey(e), PagedPrefix(q), q.from, q.to) <=>
                 Meant(q, e) /\ q.from <= e.time /\ e.time < q.to
           /\ \A t \in Nat : IngestKey(e) = Append(PagedPrefix(q), t) <=> Meant(q, e) /\ e.time = t
<1>1. /\ q.kind \in Kinds /\ q.from \in Nat /\ q.to \in Nat \ {0}
      /\ e.time \in Nat /\ e.time < MaxTime /\ e.source \in Nat /\ e.source < NameLimit
  BY EventFacts DEF Proper
<1>2. q.kind \notin MidFirst => q.source \in Nat /\ q.source < NameLimit
  <2>1. q.kind \notin MidFirst => q.source \in Sources
    BY DEF Proper
  <2> QED BY <2>1, SourceNames
<1>3. q.kind \in Divided => q.mid \in Nat /\ e.mid \in Nat /\ (q.mid \in {Unset, e.mid} <=> q.mid = e.mid)
  BY EventFacts, UnsetAssumption DEF Proper
<1>4. CASE q.kind \in {"Log", "Packet"}
  <2>1. q.kind \in Divided /\ q.kind \notin MidFirst /\ q.kind \in ThreeParts
    BY <1>4 DEF Divided, MidFirst, ThreeParts
  <2>2. PagedPrefix(q) = <<q.source, q.mid>> /\ IngestKey(e) = <<e.source, e.mid, e.time>>
    BY <1>4, <2>1, KeyForms DEF PagedPrefix, LogPrefix, PacketPrefix
  <2>3. Between(IngestKey(e), PagedPrefix(q), q.from, q.to) <=>
          e.source = q.source /\ e.mid = q.mid /\ q.from <= e.time /\ e.time < q.to
    <3>1. q.source \in Nat /\ q.mid \in Nat /\ e.mid \in Nat
      BY <1>2, <1>3, <2>1
    <3>2. PICK p \in Nat, m \in Nat, a \in Nat, b \in Nat, t \in Nat :
             p = q.source /\ m = q.mid /\ a = e.source /\ b = e.mid /\ t = e.time
      BY <1>1, <3>1
    <3>3. PICK from \in Nat, to \in Nat \ {0} : from = q.from /\ to = q.to
      BY <1>1
    <3>4. Between(<<a, b, t>>, <<p, m>>, from, to) <=> a = p /\ b = m /\ from <= t /\ t < to
      <4>1. t < MaxTime
        BY <1>1, <3>2
      <4> QED BY <4>1, BetweenTwo
    <3> QED BY <2>2, <3>2, <3>3, <3>4
  <2>4. \A t \in Nat : IngestKey(e) = Append(PagedPrefix(q), t) <=>
                         e.source = q.source /\ e.mid = q.mid /\ e.time = t
    BY <2>2
  <2> QED BY <1>3, <2>1, <2>3, <2>4 DEF Meant
<1>5. CASE q.kind = "OpLog"
  <2>1. q.kind \in Divided /\ q.kind \notin MidFirst
    BY <1>5 DEF Divided, MidFirst
  <2>2. /\ PagedPrefix(q) = <<AgentId(q.mid, q.source)>>
        /\ IngestKey(e) = <<AgentId(e.mid, e.source), e.time>>
    BY <1>5, KeyForms DEF PagedPrefix, OpLogPrefix
  <2>3. /\ AgentId(q.mid, q.source) \in Nat /\ AgentId(e.mid, e.source) \in Nat
        /\ AgentId(e.mid, e.source) = AgentId(q.mid, q.source) <=> e.mid = q.mid /\ e.source = q.source
    <3>1. /\ q.source \in Nat /\ q.source < NameLimit /\ q.mid \in Nat
          /\ e.source \in Nat /\ e.source < NameLimit /\ e.mid \in Nat
      BY <1>1, <1>2, <1>3, <2>1
    <3>2. AgentId(e.mid, e.source) = AgentId(q.mid, q.source)
            <=> e.mid = q.mid /\ e.source = q.source
      BY <3>1, AgentIds
    <3>3. AgentId(q.mid, q.source) \in Nat /\ AgentId(e.mid, e.source) \in Nat
      BY <3>1, AgentIds
    <3> QED BY <3>2, <3>3
  <2>4. Between(IngestKey(e), PagedPrefix(q), q.from, q.to) <=>
          e.source = q.source /\ e.mid = q.mid /\ q.from <= e.time /\ e.time < q.to
    BY <1>1, <2>2, <2>3, BetweenOne
  <2>5. \A t \in Nat : IngestKey(e) = Append(PagedPrefix(q), t) <=>
                         e.source = q.source /\ e.mid = q.mid /\ e.time = t
    BY <2>2, <2>3
  <2> QED BY <1>3, <2>1, <2>4, <2>5 DEF Meant
<1>6. CASE q.kind \in MidFirst
  <2>1. q.kind \in Divided
    BY <1>6 DEF Divided, MidFirst
  <2>2. PagedPrefix(q) = <<q.mid>> /\ IngestKey(e) = <<e.mid, e.time>>
    BY <1>6, KeyForms DEF PagedPrefix, SecuLogPrefix, TimeSeriesPrefix, MidFirst
  <2>3. Between(IngestKey(e), PagedPrefix(q), q.from, q.to) <=>
          e.mid = q.mid /\ q.from <= e.time /\ e.time < q.to
    BY <1>1, <1>3, <2>1, <2>2, BetweenOne
  <2>4. \A t \in Nat : IngestKey(e) = Append(PagedPrefix(q), t) <=> e.mid = q.mid /\ e.time = t
    BY <2>2
  <2> QED BY <1>3, <1>6, <2>1, <2>3, <2>4 DEF Meant
<1>7. CASE q.kind \notin Divided
  <2>1. q.kind \notin MidFirst /\ q.mid = Unset
    BY <1>7 DEF Divided, MidFirst, Proper
  <2>2. PagedPrefix(q) = <<q.source>> /\ IngestKey(e) = <<e.source, e.time>>
    BY <1>7, KeyForms DEF PagedPrefix, NetworkPrefix, Divided
  <2>3. Between(IngestKey(e), PagedPrefix(q), q.from, q.to) <=>
          e.source = q.source /\ q.from <= e.time /\ e.time < q.to
    BY <1>1, <1>2, <2>1, <2>2, BetweenOne
  <2>4. \A t \in Nat : IngestKey(e) = Append(PagedPrefix(q), t) <=> e.source = q.source /\ e.time = t
    BY <2>2
  <2> QED BY <2>1, <2>3, <2>4 DEF Meant
<1> QED BY <1>4, <1>5, <1>6, <1>7 DEF Divided, MidFirst

\* What a scan of a kind's store for a request finds.
LEMMA ScanFinds ==
    ASSUME Stored, NEW q, Proper(q), q.kind # "Statistics", NEW e
    PROVE  e \in Scan(Store[q.kind], PagedPrefix(q), q.from, q.to) <=>
              /\ e \in Archived /\ e.kind = q.kind /\ Meant(q, e)
              /\ q.from <= e.time /\ e.time < q.to
<1>1. q.kind \in Kinds /\ \A d \in Archived : d \in Events
  BY DEF Proper, Archived, Stored
<1>2. e \in Scan(Store[q.kind], PagedPrefix(q), q.from, q.to) <=>
        e \in Archived /\ e.kind = q.kind /\ Between(IngestKey(e), PagedPrefix(q), q.from, q.to)
  BY <1>1, Scanned
<1> QED BY <1>1, <1>2, PrefixIsMeant

\* What a lookup of timestamps finds.
LEMMA LookupFinds ==
    ASSUME Stored, NEW q, Proper(q), q.kind # "Statistics", NEW times \in SUBSET Times, NEW e
    PROVE  e \in Lookup(Store[q.kind], PagedPrefix(q), times) <=>
              e \in Archived /\ e.kind = q.kind /\ Meant(q, e) /\ e.time \in times
<1>1. q.kind \in Kinds /\ (\A d \in Archived : d \in Events) /\ times \subseteq Nat
  BY TimesAssumption DEF Proper, Archived, Stored
<1>2. e \in Lookup(Store[q.kind], PagedPrefix(q), times) <=>
        e \in Archived /\ e.kind = q.kind /\ Among(IngestKey(e), PagedPrefix(q), times)
  BY <1>1, LookedUp
<1>3. e \in Archived /\ e.kind = q.kind =>
        (Among(IngestKey(e), PagedPrefix(q), times) <=> Meant(q, e) /\ e.time \in times)
  BY <1>1, PrefixIsMeant DEF Among
<1> QED BY <1>2, <1>3

-----------------------------------------------------------------------------
(* The requests and their answers.                                         *)

\* Clients ask for what the interfaces have an answer to, and no range ends
\* at 0, which the code takes for no end at all.
Answerable == Asked \subseteq Offered /\ \A g \in Ranges : g[2] # 0

\* What a request may be.
LEMMA RequestParts ==
    ASSUME NEW q \in Requests
    PROVE  \E a \in Asked : \E n \in Named(a[1], a[2]), g \in RangesOf(a[1]),
               d \in AddrsOf(a[1], a[2]) :
               q = [via |-> a[1], kind |-> a[2], source |-> n[1], mid |-> n[2],
                    from |-> g[1], to |-> g[2], addr |-> d]
BY DEF Requests, RequestsOf

Interfaces == {"paged", "search", "export", "range", "raw", "hog", "crusher"}

\* The interfaces and the kinds they are asked for.
LEMMA OfferedFacts ==
    ASSUME NEW a \in Offered
    PROVE  /\ a[1] \in Interfaces /\ a[2] \in Kinds
           /\ a[1] = "paged" => a[2] \in DOMAIN PagedStore
           /\ a[1] = "search" => a[2] \in DOMAIN SearchStore
           /\ a[1] = "range" => a[2] # "FileCreateTime"
           /\ a[1] \in Stream => a[2] \in DOMAIN StreamStore \ {"FileCreate", "FileDelete"}
<1>1. /\ DOMAIN PagedStore \subseteq Kinds /\ DOMAIN SearchStore \subseteq Kinds
      /\ DOMAIN StreamStore \subseteq Kinds
  BY PagedOpens, SearchOpens, StreamOpens, AllKinds DEF Opens, Subscribable, Divided
<1>2. CASE a \in {"paged"} \X DOMAIN PagedStore
  BY <1>1, <1>2 DEF Interfaces, Stream
<1>3. CASE a \in {"search"} \X DOMAIN SearchStore
  BY <1>1, <1>3 DEF Interfaces, Stream
<1>4. CASE a \in {"export", "raw"} \X Kinds
  BY <1>4 DEF Interfaces, Stream
<1>5. CASE a \in {"range"} \X (Kinds \ {"FileCreateTime"})
  BY <1>5 DEF Interfaces, Stream
<1>6. CASE a \in Stream \X (DOMAIN StreamStore \ {"FileCreate", "FileDelete"})
  BY <1>1, <1>6 DEF Interfaces, Stream
<1> QED BY <1>2, <1>3, <1>4, <1>5, <1>6 DEF Offered

\* Whom a request names.
LEMMA NamedFacts ==
    ASSUME NEW via \in Interfaces, NEW kind \in Kinds, NEW n \in Named(via, kind)
    PROVE  /\ n[1] \in Sources \cup {Unset} /\ n[2] \in Mids[kind] \cup {Unset}
           /\ via \in Stream => n[2] = Unset
           /\ via = "crusher" => n[1] \in Sources
           /\ via \notin Stream =>
                 /\ kind \notin MidFirst => n[1] \in Sources
                 /\ kind \in MidFirst /\ ~(via = "paged" /\ kind = "SecuLog") => n[1] = Unset
                 /\ kind \in Divided \ {"Statistics"} => n[2] \in Mids[kind]
                 /\ kind \notin Divided \ {"Statistics"} => n[2] = Unset
<1>1. CASE via = "hog"
  <2>1. n \in (Sources \cup {Unset}) \X {Unset}
    BY <1>1 DEF Named
  <2> QED BY <1>1, <2>1 DEF Stream
<1>2. CASE via = "crusher"
  <2>1. n \in Sources \X {Unset}
    BY <1>2 DEF Named
  <2> QED BY <1>2, <2>1 DEF Stream
<1>3. CASE via \notin Stream
  <2>1. via # "hog" /\ via # "crusher"
    BY <1>3 DEF Stream
  <2>2. CASE kind \in {"Log", "OpLog", "Packet"}
    <3>1. n \in Sources \X Mids[kind]
      BY <2>1, <2>2 DEF Named
    <3>2. kind \notin MidFirst /\ kind \in Divided \ {"Statistics"}
      BY <2>2 DEF MidFirst, Divided
    <3> QED BY <1>3, <2>1, <3>1, <3>2
  <2>3. CASE kind = "PeriodicTimeSeries"
    <3>1. n \in {Unset} \X Mids[kind]
      BY <2>1, <2>3 DEF Named
    <3>2. kind \in MidFirst /\ kind \in Divided \ {"Statistics"}
      BY <2>3 DEF MidFirst, Divided
    <3> QED BY <1>3, <2>1, <3>1, <3>2
  <2>4. CASE kind = "SecuLog"
    <3>1. n \in (IF via = "paged" THEN Sources \cup {Unset} ELSE {Unset}) \X Mids[kind]
      BY <2>1, <2>4 DEF Named
    <3>2. kind \in MidFirst /\ kind \in Divided \ {"Statistics"}
      BY <2>4 DEF MidFirst, Divided
    <3> QED BY <1>3, <2>1, <2>4, <3>1, <3>2
  <2>5. CASE kind \notin Divided \ {"Statistics"}
    <3>1. n \in Sources \X {Unset}
      BY <2>1, <2>5 DEF Named, Divided
    <3>2. kind \notin MidFirst
      BY <2>5 DEF MidFirst, Divided
    <3> QED BY <1>3, <2>1, <2>5, <3>1, <3>2
  <2> QED BY <2>2, <2>3, <2>4, <2>5 DEF Divided
<1> QED BY <1>1, <1>2, <1>3 DEF Stream

\* What is known of a request.
LEMMA RequestFacts ==
    ASSUME Answerable, NEW q \in Requests
    PROVE  /\ q \in AnyRequest
           /\ <<q.via, q.kind>> \in Offered /\ <<q.source, q.mid>> \in Named(q.via, q.kind)
           /\ q.from \in Nat /\ q.to \in Nat \ {0}
           /\ q.via = "crusher" => q.to = MaxTime
           /\ q.via \in {"range", "raw"} => q.addr = Unset
<1>1. PICK a \in Asked : \E n \in Named(a[1], a[2]), g \in RangesOf(a[1]),
          d \in AddrsOf(a[1], a[2]) :
          q = [via |-> a[1], kind |-> a[2], source |-> n[1], mid |-> n[2],
               from |-> g[1], to |-> g[2], addr |-> d]
  BY RequestParts
<1>2. PICK n \in Named(a[1], a[2]), g \in RangesOf(a[1]), d \in AddrsOf(a[1], a[2]) :
          q = [via |-> a[1], kind |-> a[2], source |-> n[1], mid |-> n[2],
               from |-> g[1], to |-> g[2], addr |-> d]
  BY <1>1
<1>3. a \in Offered /\ a[1] \in Interfaces /\ a[2] \in Kinds
  BY OfferedFacts DEF Answerable
<1>4. a = <<a[1], a[2]>> /\ n = <<n[1], n[2]>>
  <2>1. a = <<a[1], a[2]>>
    BY <1>3 DEF Offered
  <2>2. n = <<n[1], n[2]>>
    BY DEF Named
  <2> QED BY <2>1, <2>2
<1>5. /\ n[1] \in Sources \cup {Unset} /\ n[2] \in Mids[a[2]] \cup {Unset}
  BY <1>3, NamedFacts
<1>6. g[1] \in Nat /\ g[2] \in Nat \ {0} /\ (a[1] = "crusher" => g[2] = MaxTime)
  <2>1. \A h \in Ranges : h[1] \in Nat /\ h[2] \in Nat \ {0}
    BY RangesAssumption DEF Answerable
  <2> QED BY <2>1, TimesAssumption DEF RangesOf
<1>7. d \in Addrs /\ (a[1] \in {"range", "raw"} => d = Unset)
  BY UnsetAssumption DEF AddrsOf
<1>8. /\ q.via = a[1] /\ q.kind = a[2] /\ q.source = n[1] /\ q.mid = n[2]
      /\ q.from = g[1] /\ q.to = g[2] /\ q.addr = d
  BY <1>2
<1>9. q \in AnyRequest
  <2>1. n[2] \in {Unset} \cup UNION {Mids[k] : k \in Kinds}
    <3>1. \A x \in Mids[a[2]] : x \in UNION {Mids[k] : k \in Kinds}
      BY <1>3
    <3> QED BY <1>5, <3>1
  <2>2. a[1] \in {"paged", "search", "export", "range", "raw"} \cup Stream
    BY <1>3 DEF Interfaces, Stream
  <2> QED BY <1>2, <1>3, <1>5, <1>6, <1>7, <2>1, <2>2 DEF AnyRequest
<1>10. <<q.via, q.kind>> \in Offered /\ <<q.source, q.mid>> \in Named(q.via, q.kind)
  BY <1>3, <1>4, <1>8
<1> QED BY <1>6, <1>7, <1>8, <1>9, <1>10

\* But for subscriptions and statistics, a request is a proper one.
LEMMA ProperRequest ==
    ASSUME Answerable, NEW q \in Requests, q.via \notin Stream
    PROVE  /\ q.kind # "Statistics" => Proper(q)
           /\ q.kind \notin MidFirst => q.source \in Sources
           /\ q.kind \in MidFirst /\ ~(q.via = "paged" /\ q.kind = "SecuLog") => q.source = Unset
           /\ q.kind = "Statistics" => q.mid = Unset
<1>1. /\ <<q.via, q.kind>> \in Offered /\ <<q.source, q.mid>> \in Named(q.via, q.kind)
      /\ q.from \in Nat /\ q.to \in Nat \ {0}
  BY RequestFacts
<1>2. q.via \in Interfaces /\ q.kind \in Kinds
  <2>1. PICK a \in Offered : a = <<q.via, q.kind>>
    BY <1>1
  <2>2. a[1] \in Interfaces /\ a[2] \in Kinds
    BY OfferedFacts
  <2> QED BY <2>1, <2>2
<1>3. /\ q.kind \notin MidFirst => q.source \in Sources
      /\ q.kind \in MidFirst /\ ~(q.via = "paged" /\ q.kind = "SecuLog") => q.source = Unset
      /\ q.kind \in Divided \ {"Statistics"} => q.mid \in Mids[q.kind]
      /\ q.kind \notin Divided \ {"Statistics"} => q.mid = Unset
  <2>1. PICK n \in Named(q.via, q.kind) : n = <<q.source, q.mid>>
    BY <1>1
  <2>2. n[1] = q.source /\ n[2] = q.mid
    BY <2>1
  <2> QED BY <1>2, <2>2, NamedFacts
<1>4. q.kind \in Divided \ {"Statistics"} => q.mid \in Nat
  <2>1. Mids[q.kind] \subseteq Nat
    BY <1>2, NamesAssumption
  <2> QED BY <1>3, <2>1
<1>5. q.kind # "Statistics" => Proper(q)
  BY <1>1, <1>2, <1>3, <1>4 DEF Proper
<1>6. q.kind = "Statistics" => q.mid = Unset
  BY <1>3
<1> QED BY <1>3, <1>5, <1>6

\* The filters pass what has the address, or has none.
LEMMA AddressCheck ==
    ASSUME NEW e \in Events, NEW q
    PROVE  CheckAddress(q, e) <=>
              q.addr = Unset \/ e.kind \notin Archive!Addressed \/ e.addr = q.addr
<1>1. "addr" \in Fields[e.kind] <=> e.kind \in Archive!Addressed
  BY EventFacts, AddressFields
<1> QED BY <1>1 DEF CheckAddress

\* What a request wants is what it means, in its range and with its address;
\* the source has to be looked at only for the paged queries of SecuLog.
LEMMA WantedIsMeant ==
    ASSUME Answerable, NEW q \in Requests, q.via \notin Stream, NEW e \in Events,
           e.kind = q.kind
    PROVE  /\ Archive!Wanted(q, e) <=>
                 /\ Meant(q, e) /\ CheckSource(q, e)
                 /\ q.from <= e.time /\ e.time < q.to /\ CheckAddress(q, e)
           /\ ~(q.via = "paged" /\ q.kind = "SecuLog") /\ Meant(q, e) => CheckSource(q, e)
<1>1. /\ q.kind \notin MidFirst => q.source \in Sources
      /\ q.kind \in MidFirst /\ ~(q.via = "paged" /\ q.kind = "SecuLog") => q.source = Unset
  BY ProperRequest
<1>2. q.via # "hog"
  BY DEF Stream
<1>3. q.kind \notin MidFirst => q.source # Unset
  BY <1>1, SourceNames
<1>4. Archive!About(q, e) <=> Meant(q, e) /\ CheckSource(q, e)
  BY <1>3 DEF Archive!About, Meant, CheckSource
<1>5. ~(q.via = "paged" /\ q.kind = "SecuLog") /\ Meant(q, e) => CheckSource(q, e)
  BY <1>1 DEF Meant, CheckSource
<1> QED BY <1>2, <1>4, <1>5, AddressCheck DEF Archive!Wanted

\* The answer to a request, all of it and nothing else.
Answer(q) == {e \in Archived : Archive!Wanted(q, e)}

\* What is stored are events.
LEMMA StoredEvents == Stored => Archived \subseteq Events
BY DEF Stored, Archived

\* The stores are queried by pages.
LEMMA PagedIsWanted ==
    ASSUME Stored, Answerable, NEW q \in Requests, q.via = "paged"
    PROVE  Paged(q) = Answer(q)
<1>1. q.via \notin Stream /\ q.kind \in DOMAIN PagedStore
  <2>1. PICK a \in Offered : a = <<q.via, q.kind>>
    BY RequestFacts
  <2> QED BY <2>1, OfferedFacts DEF Stream
<1>2. PagedStore[q.kind] = Store[q.kind] /\ q.kind # "Statistics"
  BY <1>1, PagedOpens DEF Opens
<1>3. Proper(q)
  BY <1>1, <1>2, ProperRequest
<1>4. ASSUME NEW e
      PROVE  e \in Paged(q) <=> e \in Answer(q)
  <2>1. e \in Scan(Store[q.kind], PagedPrefix(q), q.from, q.to) <=>
           /\ e \in Archived /\ e.kind = q.kind /\ Meant(q, e)
           /\ q.from <= e.time /\ e.time < q.to
    BY <1>2, <1>3, ScanFinds
  <2>2. e \in Paged(q) <=>
           /\ e \in Scan(Store[q.kind], PagedPrefix(q), q.from, q.to)
           /\ CheckAddress(q, e) /\ (q.kind = "SecuLog" => CheckSource(q, e))
    BY <1>2 DEF Paged, SecuLogCheck, NetworkCheck
  <2>3. e \in Archived /\ e.kind = q.kind =>
           /\ Archive!Wanted(q, e) <=>
                 /\ Meant(q, e) /\ CheckSource(q, e)
                 /\ q.from <= e.time /\ e.time < q.to /\ CheckAddress(q, e)
           /\ ~(q.kind = "SecuLog") /\ Meant(q, e) => CheckSource(q, e)
    BY <1>1, StoredEvents, WantedIsMeant
  <2>4. Archive!Wanted(q, e) => e.kind = q.kind
    BY DEF Archive!Wanted, Archive!About
  <2>5. e \in Answer(q) <=> e \in Archived /\ Archive!Wanted(q, e)
    BY DEF Answer
  <2> QED BY <2>1, <2>2, <2>3, <2>4, <2>5
<1> QED BY <1>4 DEF Paged, Answer

\* An answer that is neither paged nor about statistics.
LEMMA MeantIsWanted ==
    ASSUME Stored, Answerable, NEW q \in Requests, q.via \notin Stream, q.via # "paged", NEW e
    PROVE  e \in Answer(q) <=>
              /\ e \in Archived /\ e.kind = q.kind /\ Meant(q, e)
              /\ q.from <= e.time /\ e.time < q.to /\ CheckAddress(q, e)
<1>1. e \in Archived /\ e.kind = q.kind =>
         /\ Archive!Wanted(q, e) <=>
               /\ Meant(q, e) /\ CheckSource(q, e)
               /\ q.from <= e.time /\ e.time < q.to /\ CheckAddress(q, e)
         /\ Meant(q, e) => CheckSource(q, e)
  BY StoredEvents, WantedIsMeant
<1>2. Archive!Wanted(q, e) => e.kind = q.kind
  BY DEF Archive!Wanted, Archive!About
<1>3. e \in Answer(q) <=> e \in Archived /\ Archive!Wanted(q, e)
  BY DEF Answer
<1> QED BY <1>1, <1>2, <1>3

\* A search of every timestamp there may be, filtered by the range.
LEMMA SearchIsWanted ==
    ASSUME Stored, Answerable, NEW q \in Requests, q.via = "search"
    PROVE  Search(q) = Answer(q)
<1>1. q.via \notin Stream /\ q.via # "paged" /\ q.kind \in DOMAIN SearchStore
  <2>1. PICK a \in Offered : a = <<q.via, q.kind>>
    BY RequestFacts
  <2> QED BY <2>1, OfferedFacts DEF Stream
<1>2. SearchStore[q.kind] = Store[q.kind] /\ q.kind \notin Divided
  BY <1>1, SearchOpens DEF Opens
<1>3. q.kind # "Statistics" /\ Proper(q)
  BY <1>1, <1>2, ProperRequest DEF Divided
<1>4. NetworkPrefix(q) = PagedPrefix(q)
  BY <1>2 DEF PagedPrefix, Divided
<1>5. ASSUME NEW e
      PROVE  e \in Search(q) <=> e \in Answer(q)
  <2>1. e \in Lookup(Store[q.kind], PagedPrefix(q), Times) <=>
           e \in Archived /\ e.kind = q.kind /\ Meant(q, e) /\ e.time \in Times
    BY <1>3, LookupFinds
  <2>2. e \in Archived => e.time \in Times
    BY StoredEvents, EventFacts
  <2>3. e \in Search(q) <=>
           /\ e \in Lookup(Store[q.kind], PagedPrefix(q), Times)
           /\ q.from <= e.time /\ e.time < q.to /\ CheckAddress(q, e)
    BY <1>2, <1>4 DEF Search, SearchCheck
  <2> QED BY <1>1, <2>1, <2>2, <2>3, MeantIsWanted
<1> QED BY <1>5 DEF Search, Answer

\* Requests for timestamps and ranges, and exports, put the same prefixes
\* together as the paged queries.
LEMMA SamePrefix ==
    ASSUME NEW q
    PROVE  /\ q.kind \in Requested => RangePrefix(q) = PagedPrefix(q)
           /\ q.kind \in Kinds \ {"Packet", "Statistics"} => ExportPrefix(q) = PagedPrefix(q)
<1>1. q.kind \in Requested => RangePrefix(q) = PagedPrefix(q)
  BY DEF Requested, RangePrefix, PagedPrefix, LogPrefix, TimeSeriesPrefix, NetworkPrefix
<1>2. q.kind \in Kinds \ {"Packet", "Statistics"} => ExportPrefix(q) = PagedPrefix(q)
  BY DEF ExportPrefix, PagedPrefix, LogPrefix, TimeSeriesPrefix, NetworkPrefix, OpLogPrefix,
         SecuLogPrefix
<1> QED BY <1>1, <1>2

\* A range request for a kind that has a store of its own.
LEMMA RangeIsWanted ==
    ASSUME Stored, Answerable, NEW q \in Requests, q.via = "range", q.kind \in DOMAIN RangeStore
    PROVE  ProcessRangeData(q) = Answer(q)
<1>1. q.via \notin Stream /\ q.via # "paged" /\ q.kind # "FileCreateTime"
  <2>1. PICK a \in Offered : a = <<q.via, q.kind>>
    BY RequestFacts
  <2> QED BY <2>1, OfferedFacts DEF Stream
<1>2. RangeStore[q.kind] = Store[q.kind] /\ q.kind \in Requested
  BY <1>1, RangeOpens
<1>3. q.kind # "Statistics" /\ Proper(q)
  BY <1>1, <1>2, ProperRequest DEF Requested
<1>4. ProcessRangeData(q) = Scan(Store[q.kind], PagedPrefix(q), q.from, q.to)
  BY <1>2, SamePrefix DEF ProcessRangeData
<1>5. ASSUME NEW e
      PROVE  e \in ProcessRangeData(q) <=> e \in Answer(q)
  <2>1. CheckAddress(q, e)
    BY RequestFacts DEF CheckAddress
  <2> QED BY <1>1, <1>3, <1>4, <2>1, ScanFinds, MeantIsWanted
<1> QED BY <1>5 DEF ProcessRangeData, Scan, Answer

\* A request for the events of given timestamps.
LEMMA RawIsWanted ==
    ASSUME Stored, Answerable, NEW q \in Requests, q.via = "raw", q.kind \in DOMAIN RawStore
    PROVE  ProcessRawEvents(q) = Answer(q)
<1>1. q.via \notin Stream /\ q.via # "paged"
  BY DEF Stream
<1>2. RawStore[q.kind] = Store[q.kind] /\ q.kind \in Requested
  BY RawOpens DEF Opens
<1>3. q.kind # "Statistics" /\ Proper(q)
  BY <1>1, <1>2, ProperRequest DEF Requested
<1> DEFINE times == {t \in Times : q.from <= t /\ t < q.to}
<1>4. ProcessRawEvents(q) = Lookup(Store[q.kind], PagedPrefix(q), times)
  BY <1>2, SamePrefix DEF ProcessRawEvents
<1>5. ASSUME NEW e
      PROVE  e \in ProcessRawEvents(q) <=> e \in Answer(q)
  <2>1. CheckAddress(q, e)
    BY RequestFacts DEF CheckAddress
  <2>2. e \in Lookup(Store[q.kind], PagedPrefix(q), times) <=>
           e \in Archived /\ e.kind = q.kind /\ Meant(q, e) /\ e.time \in times
    <3>1. times \in SUBSET Times
      OBVIOUS
    <3> HIDE DEF times
    <3> QED BY <1>3, <3>1, LookupFinds
  <2>3. e \in Archived => (e.time \in times <=> q.from <= e.time /\ e.time < q.to)
    BY StoredEvents, EventFacts
  <2> HIDE DEF times
  <2> QED BY <1>1, <1>4, <2>1, <2>2, <2>3, MeantIsWanted
<1> QED BY <1>5 DEF ProcessRawEvents, Lookup, Answer

\* A scan of the statistics of a source and a core.
LEMMA CoreScanned ==
    ASSUME Stored, NEW source \in Sources, NEW core \in Nat, NEW from \in Nat,
           NEW to \in Nat \ {0}, NEW e
    PROVE  e \in Scan(Store["Statistics"], <<source, core>>, from, to) <=>
              /\ e \in Archived /\ e.kind = "Statistics" /\ e.source = source /\ e.mid = core
              /\ from <= e.time /\ e.time < to
<1>1. e \in Scan(Store["Statistics"], <<source, core>>, from, to) <=>
         /\ e \in Archived /\ e.kind = "Statistics"
         /\ Between(IngestKey(e), <<source, core>>, from, to)
  BY Scanned, AllKinds
<1>2. ASSUME e \in Archived, e.kind = "Statistics"
      PROVE  Between(IngestKey(e), <<source, core>>, from, to) <=>
                e.source = source /\ e.mid = core /\ from <= e.time /\ e.time < to
  <2>1. e \in Events
    BY <1>2, StoredEvents
  <2>2. e.source \in Nat /\ e.mid \in Nat /\ e.time \in Nat /\ e.time < MaxTime
    BY <1>2, <2>1, EventFacts DEF Divided
  <2>3. IngestKey(e) = <<e.source, e.mid, e.time>>
    BY <1>2, <2>1, KeyForms DEF ThreeParts
  <2>4. PICK p \in Nat, a \in Nat, b \in Nat, t \in Nat :
           p = source /\ a = e.source /\ b = e.mid /\ t = e.time
    BY <2>2, SourceNames
  <2>5. t < MaxTime
    BY <2>2, <2>4
  <2>6. Between(<<a, b, t>>, <<p, core>>, from, to) <=>
           a = p /\ b = core /\ from <= t /\ t < to
    BY <2>5, BetweenTwo
  <2> QED BY <2>3, <2>4, <2>6
<1> QED BY <1>1, <1>2

\* The export of the statistics goes through the cores one by one.
LEMMA CoresAreAll ==
    ASSUME Stored, NEW q, q.kind = "Statistics", q.source \in Sources, q.mid = Unset,
           q.from \in Nat, q.to \in Nat \ {0}, ExportStore[q.kind] = Store[q.kind], NEW e
    PROVE  e \in ProcessStatisticsExport(q) <=>
              /\ e \in Archived /\ e.kind = q.kind /\ Meant(q, e)
              /\ q.from <= e.time /\ e.time < q.to
<1> DEFINE scan(core) == Scan(Store[q.kind], <<q.source, core>>, q.from, q.to)
<1>1. e \in ProcessStatisticsExport(q) <=> \E core \in 0..(MAX_CORE_SIZE - 1) : e \in scan(core)
  BY DEF ProcessStatisticsExport
<1>2. Meant(q, e) <=> q.source = e.source
  BY DEF Meant, MidFirst
<1>3. ASSUME e \in Archived, e.kind = "Statistics"
      PROVE  e.mid \in 0..(MAX_CORE_SIZE - 1)
  <2>1. e \in Events
    BY <1>3, StoredEvents
  <2>2. e.mid \in Mids["Statistics"]
    BY <1>3, <2>1, EventFacts DEF Divided
  <2> QED BY <2>2, CoresAssumption
<1>4. ASSUME NEW core \in Nat
      PROVE  e \in scan(core) <=>
                /\ e \in Archived /\ e.kind = "Statistics" /\ e.source = q.source /\ e.mid = core
                /\ q.from <= e.time /\ e.time < q.to
  BY CoreScanned
<1> HIDE DEF scan
<1>5. \A core \in 0..(MAX_CORE_SIZE - 1) : core \in Nat
  OBVIOUS
<1> QED BY <1>1, <1>2, <1>3, <1>4, <1>5

\* An export that is not refused.
LEMMA ExportIsWanted ==
    ASSUME Stored, Answerable, NEW q \in Requests, q.via = "export", ~ExportRefused(q)
    PROVE  ProcessExport(q) = Answer(q)
<1>1. q.via \notin Stream /\ q.via # "paged"
  BY DEF Stream
<1>2. ExportStore[q.kind] = Store[q.kind] /\ q.kind \in Kinds \ {"Packet"}
  BY ExportOpens DEF Opens, ExportRefused
<1>3. ASSUME NEW e
      PROVE  e \in ProcessExport(q) <=>
                /\ e \in Archived /\ e.kind = q.kind /\ Meant(q, e)
                /\ q.from <= e.time /\ e.time < q.to /\ CheckAddress(q, e)
  <2>1. CASE q.kind = "Statistics"
    <3>1. q.source \in Sources /\ q.mid = Unset /\ q.from \in Nat /\ q.to \in Nat \ {0}
      BY <1>1, <2>1, ProperRequest, RequestFacts DEF MidFirst
    <3>2. e \in ProcessExport(q) <=> e \in ProcessStatisticsExport(q) /\ CheckAddress(q, e)
      BY <2>1 DEF ProcessExport, ExportCheck
    <3> QED BY <1>2, <2>1, <3>1, <3>2, CoresAreAll
  <2>2. CASE q.kind # "Statistics"
    <3>1. Proper(q)
      BY <1>1, <2>2, ProperRequest
    <3>2. e \in ProcessExport(q) <=>
             e \in Scan(Store[q.kind], PagedPrefix(q), q.from, q.to) /\ CheckAddress(q, e)
      BY <1>2, <2>2, SamePrefix DEF ProcessExport, ExportCheck
    <3> QED BY <2>2, <3>1, <3>2, ScanFinds
  <2> QED BY <2>1, <2>2
<1>4. \A e : e \in ProcessExport(q) <=> e \in Answer(q)
  BY <1>1, <1>3, MeantIsWanted
<1> QED BY <1>4 DEF ProcessExport, Answer

\* What a subscriber names.
LEMMA SubscriptionFacts ==
    ASSUME Answerable, NEW q \in Requests, q.via \in Stream
    PROVE  /\ q.kind \in DOMAIN StreamStore \ {"FileCreate", "FileDelete"} /\ q.mid = Unset
           /\ q.kind \in Subscribable /\ StreamStore[q.kind] = Store[q.kind]
           /\ q.via = "crusher" => q.source \in Sources /\ q.from \in Nat /\ q.to = MaxTime
<1>1. PICK a \in Offered : a = <<q.via, q.kind>>
  BY RequestFacts
<1>2. PICK n \in Named(q.via, q.kind) : n = <<q.source, q.mid>>
  BY RequestFacts
<1>3. q.via \in Interfaces /\ q.kind \in Kinds
  BY <1>1, OfferedFacts
<1>4. q.kind \in DOMAIN StreamStore \ {"FileCreate", "FileDelete"}
  BY <1>1, OfferedFacts
<1>5. n[1] = q.source /\ n[2] = q.mid
  BY <1>2
<1>6. q.mid = Unset /\ (q.via = "crusher" => q.source \in Sources)
  BY <1>3, <1>5, NamedFacts
<1>7. q.kind \in Subscribable /\ StreamStore[q.kind] = Store[q.kind]
  BY <1>4, StreamOpens DEF Opens
<1>8. q.via = "crusher" => q.from \in Nat /\ q.to = MaxTime
  BY RequestFacts
<1> QED BY <1>4, <1>6, <1>7, <1>8

\* The scan for a Crusher finds, of the logs, those whose kind is not before
\* the start of the range: with that, all that are asked for.
LEMMA LogsAreFound ==
    ASSUME Stored, Answerable, NEW q \in Requests, q.via = "crusher", q.kind = "Log",
           NEW e \in Answer(q)
    PROVE  e \in StreamScan(q)
<1>1. /\ q.source \in Sources /\ q.from \in Nat /\ q.to = MaxTime
      /\ StreamStore[q.kind] = Store[q.kind]
  BY SubscriptionFacts DEF Stream
<1>2. e \in Archived /\ e \in Events /\ Archive!Wanted(q, e)
  BY StoredEvents DEF Answer
<1>3. e.kind = "Log" /\ q.source \in {Unset, e.source} /\ q.from <= e.time
  BY <1>2 DEF Archive!Wanted, Archive!About
<1>4. e.source \in Nat /\ e.mid \in Nat /\ e.mid \in Mids["Log"] /\ e.time \in Nat /\ e.time \in Times
  BY <1>2, <1>3, EventFacts DEF Divided
<1>5. e.time < e.mid /\ e.mid < MaxTime /\ MaxTime \in Nat
  BY <1>4, NamesAssumption, TimesAssumption
<1>6. q.source = e.source
  BY <1>1, <1>3, SourceNames
<1>7. IngestKey(e) = <<e.source, e.mid, e.time>>
  BY <1>2, <1>3, KeyForms DEF ThreeParts
<1>8. /\ LowerClosed(<<q.source>>, q.from) = <<q.source, q.from>>
      /\ UpperOpen(<<q.source>>, q.to) = <<q.source, MaxTime>>
  <2>1. UpperOpen(<<q.source>>, q.to) = Append(<<q.source>>, MaxTime)
    BY <1>1 DEF UpperOpen
  <2>2. q.source \in Nat
    BY <1>1, SourceNames
  <2> QED BY <1>1, <1>5, <2>1, <2>2, AppendToOne DEF LowerClosed
<1>9. /\ ~Before(IngestKey(e), <<q.source, q.from>>)
      /\ ~Before(<<q.source, MaxTime>>, IngestKey(e))
  <2>1. PICK s \in Nat, m \in Nat, t \in Nat, from \in Nat, max \in Nat :
           s = e.source /\ m = e.mid /\ t = e.time /\ from = q.from /\ max = MaxTime
    BY <1>1, <1>4, <1>5
  <2>2. from <= m /\ m < max
    BY <1>3, <1>5, <2>1
  <2>3. ~Before(<<s, m, t>>, <<s, from>>)
    BY <2>2, TripleAndPair
  <2>4. ~Before(<<s, max>>, <<s, m, t>>)
    BY <2>2, TripleAndPair
  <2> QED BY <1>6, <1>7, <2>1, <2>3, <2>4
<1>10. Between(IngestKey(e), <<q.source>>, q.from, q.to)
  BY <1>8, <1>9 DEF Between
<1>11. "Log" \in Kinds
  BY AllKinds
<1>12. e \in Scan(Store["Log"], <<q.source>>, q.from, q.to)
  BY <1>2, <1>3, <1>10, <1>11, Scanned
<1> QED BY <1>1, <1>12 DEF StreamScan

\* A Crusher that is not refused is sent what it asks for.
LEMMA CrusherIsWanted ==
    ASSUME Stored, Answerable, NEW q \in Requests, q.via = "crusher",
           \A e \in StreamScan(q) : "addr" \in Fields[e.kind]
    PROVE  {e \in StreamScan(q) : FilterIp(q, e)} = Answer(q)
<1>1. /\ q.source \in Sources /\ q.from \in Nat /\ q.to = MaxTime /\ q.mid = Unset
      /\ StreamStore[q.kind] = Store[q.kind] /\ q.kind \in Subscribable
  BY SubscriptionFacts DEF Stream
<1>2. "Log" \in Kinds /\ q.kind \in Kinds
  BY <1>1, AllKinds DEF Subscribable
<1>3. ASSUME NEW e \in StreamScan(q)
      PROVE  e \in Archived /\ e \in Events /\ e.kind = q.kind
  BY <1>1, <1>2, Scanned, StoredEvents DEF StreamScan
<1>4. CASE q.kind = "Log"
  <2>1. ~("addr" \in Fields["Log"])
    BY <1>2, AddressFields DEF Archive!Addressed
  <2>2. \A e \in StreamScan(q) : FALSE
    BY <1>3, <1>4, <2>1
  <2>3. \A e \in Answer(q) : FALSE
    BY <1>4, <2>2, LogsAreFound
  <2> QED BY <2>2, <2>3
<1>5. CASE q.kind # "Log"
  <2>1. q.kind \notin Divided /\ q.kind \notin MidFirst /\ q.kind # "Statistics"
    BY <1>1, <1>5 DEF Subscribable, Divided, MidFirst
  <2>2. PagedPrefix(q) = <<q.source>>
    BY <2>1 DEF PagedPrefix, NetworkPrefix, Divided
  <2>3. Proper(q)
    BY <1>1, <1>2, <2>1, TimesAssumption DEF Proper
  <2>4. ASSUME NEW e
        PROVE  e \in StreamScan(q) <=>
                  /\ e \in Archived /\ e.kind = q.kind /\ q.source = e.source
                  /\ q.from <= e.time /\ e.time < q.to
    <3>1. e \in StreamScan(q) <=>
             /\ e \in Archived /\ e.kind = q.kind /\ Meant(q, e)
             /\ q.from <= e.time /\ e.time < q.to
      BY <1>1, <2>1, <2>2, <2>3, ScanFinds DEF StreamScan
    <3> QED BY <1>1, <2>1, <3>1 DEF Meant
  <2>5. ASSUME NEW e \in Archived
        PROVE  Archive!Wanted(q, e) <=>
                  /\ e.kind = q.kind /\ q.source = e.source /\ q.from <= e.time /\ e.time < q.to
                  /\ q.addr = Unset \/ e.kind \notin Archive!Addressed \/ e.addr = q.addr
    <3>1. q.source # Unset
      BY <1>1, SourceNames
    <3> QED BY <1>1, <3>1 DEF Archive!Wanted, Archive!About
  <2>6. ASSUME NEW e \in StreamScan(q)
        PROVE  FilterIp(q, e) <=>
                  q.addr = Unset \/ e.kind \notin Archive!Addressed \/ e.addr = q.addr
    <3>1. e.kind \in Archive!Addressed
      BY <1>3, EventFacts, AddressFields
    <3> QED BY <3>1 DEF FilterIp
  <2>7. \A e : e \in Answer(q) <=> e \in Archived /\ Archive!Wanted(q, e)
    BY DEF Answer
  <2>8. \A e : e \in StreamScan(q) /\ FilterIp(q, e) <=> e \in Answer(q)
    BY <2>4, <2>5, <2>6, <2>7
  <2> QED BY <2>8 DEF Answer
<1> QED BY <1>4, <1>5

-----------------------------------------------------------------------------
(* The steps.                                                              *)

\* A set of naturals that is not empty has a least element: the order of the
\* naturals is well-founded.
LEMMA LeastNat ==
    ASSUME NEW T \in SUBSET Nat, T # {}
    PROVE  \E x \in T : \A y \in T : x <= y
<1> DEFINE R == {ss \in Nat \X Nat : ss[1] < ss[2]}
<1>1. IsWellFoundedOn(R, Nat)
  BY NatLessThanWellFounded DEF OpToRel
<1> HIDE DEF R
<1>2. PICK x \in T : \A y \in T : ~(<<y, x>> \in R)
  BY <1>1, WFMin
<1>3. \A m \in Nat, n \in Nat : n < m => <<n, m>> \in R
  BY DEF R
<1>4. \A y \in T : ~(y < x)
  BY <1>2, <1>3, Zenon
<1> QED BY <1>4

\* The newest of some timestamps is one of them.
LEMMA NewestIsNat ==
    ASSUME NEW T \in SUBSET Times, T # {}
    PROVE  Max(T) \in Nat
<1> DEFINE U == {MaxTime - t : t \in T}
<1>1. T \subseteq Nat /\ MaxTime \in Nat /\ \A t \in T : MaxTime - t \in Nat
  BY TimesAssumption
<1>2. U \in SUBSET Nat /\ U # {}
  BY <1>1
<1>3. PICK u \in U : \A v \in U : u <= v
  BY <1>2, LeastNat
<1>4. PICK m \in T : u = MaxTime - m
  BY <1>3
<1>5. ASSUME NEW j \in T PROVE m >= j
  <2>1. MaxTime - j \in U
    OBVIOUS
  <2>2. MaxTime - m <= MaxTime - j
    BY <1>3, <1>4, <2>1
  <2>3. m \in Nat /\ j \in Nat /\ MaxTime \in Nat
    BY <1>1
  <2> QED BY <2>2, <2>3
<1>6. \E x \in T : \A j \in T : x >= j
  BY <1>5
<1>7. Max(T) \in T
  BY <1>6 DEF Max
<1> QED BY <1>1, <1>7

\* A request that is answered with what it asks for, or refused, is served
\* as EventArchive has it.
LEMMA ServedIsServe ==
    ASSUME Stored, NEW q \in AnyRequest, NEW live \in BOOLEAN, NEW got, Serves(q, live, got),
           \/ got = Answer(q) /\ (live <=> Archive!Subscription(q))
           \/ got = Refused /\ ~live
    PROVE  Archive!Serve
<1> DEFINE since == IF live /\ got # {} THEN Max({e.time : e \in got}) ELSE 0
           c == [asks |-> q, live |-> live, got |-> got, since |-> since]
<1>1. client = Idle /\ client' = c /\ db' = db
  BY DEF Serves
<1>2. got \in (SUBSET Events) \cup {Refused}
  BY StoredEvents DEF Answer
<1>3. since \in Nat
  <2>1. CASE live /\ got # {}
    <3>1. got = Answer(q) /\ got \subseteq Events
      BY <2>1, StoredEvents DEF Answer
    <3>2. {e.time : e \in got} \in SUBSET Times /\ {e.time : e \in got} # {}
      BY <2>1, <3>1, EventFacts
    <3> HIDE DEF since
    <3>3. Max({e.time : e \in got}) \in Nat
      BY <3>2, NewestIsNat
    <3> QED BY <2>1, <3>3 DEF since
  <2>2. CASE ~(live /\ got # {})
    BY <2>2
  <2> QED BY <2>1, <2>2
<1>4. c \in Served
  <2> HIDE DEF since
  <2> QED BY <1>2, <1>3 DEF Served
<1>5. client' # Idle
  BY <1>1, <1>4, IdleAssumption
<1>6. client'.asks = q /\ q \in AnyRequest
  BY <1>1
<1>7. client' \in {Archive!Answered(q), Archive!Turned(q)}
  <2>1. CASE got = Answer(q) /\ (live <=> Archive!Subscription(q))
    <3>1. since = IF Archive!Subscription(q) THEN Archive!Newest(got) ELSE 0
      BY <2>1 DEF Archive!Newest, Max, Archive!Max
    <3>2. live = Archive!Subscription(q)
      BY <2>1 DEF Archive!Subscription
    <3>3. got = {e \in {r.event : r \in db} : Archive!Wanted(q, e)}
      BY <2>1 DEF Answer, Archived
    <3> HIDE DEF since
    <3>4. c = Archive!Answered(q)
      BY <3>1, <3>2, <3>3 DEF Archive!Answered
    <3> QED BY <1>1, <3>4
  <2>2. CASE got = Refused /\ ~live
    <3>1. since = 0 /\ live = FALSE
      BY <2>2
    <3> HIDE DEF since
    <3>2. c = Archive!Turned(q)
      BY <2>2, <3>1 DEF Archive!Turned
    <3> QED BY <1>1, <3>2
  <2> QED BY <2>1, <2>2
<1> HIDE DEF c, since
<1> QED BY <1>1, <1>5, <1>6, <1>7 DEF Archive!Serve

\* The requests of clients.
Request(q) ==
    \/ PagedQuery(q) \/ SearchQuery(q) \/ Export(q)
    \/ RangeRequest(q) \/ RawRequest(q)
    \/ HogStream(q) \/ CrusherStream(q)

\* Every interface answers with what is asked for, or refuses.
LEMMA RequestIsServe ==
    ASSUME Stored, Answerable, NEW q \in Requests, Request(q)
    PROVE  Archive!Serve
<1>1. q \in AnyRequest
  BY RequestFacts
<1>2. CASE PagedQuery(q)
  <2>1. q.via = "paged" /\ Serves(q, FALSE, Answer(q))
    BY <1>2, PagedIsWanted DEF PagedQuery
  <2>2. ~Archive!Subscription(q)
    BY <2>1 DEF Archive!Subscription
  <2> QED BY <1>1, <2>1, <2>2, ServedIsServe
<1>3. CASE SearchQuery(q)
  <2>1. q.via = "search" /\ Serves(q, FALSE, Answer(q))
    BY <1>3, SearchIsWanted DEF SearchQuery
  <2>2. ~Archive!Subscription(q)
    BY <2>1 DEF Archive!Subscription
  <2> QED BY <1>1, <2>1, <2>2, ServedIsServe
<1>4. CASE Export(q)
  <2>1. /\ q.via = "export"
        /\ Serves(q, FALSE, IF ExportRefused(q) THEN Refused ELSE ProcessExport(q))
    BY <1>4 DEF Export
  <2>2. ~Archive!Subscription(q)
    BY <2>1 DEF Archive!Subscription
  <2>3. CASE ExportRefused(q)
    BY <1>1, <2>1, <2>3, ServedIsServe
  <2>4. CASE ~ExportRefused(q)
    <3>1. Serves(q, FALSE, Answer(q))
      BY <2>1, <2>4, ExportIsWanted
    <3> QED BY <1>1, <2>2, <3>1, ServedIsServe
  <2> QED BY <2>3, <2>4
<1>5. CASE RangeRequest(q)
  <2>1. /\ q.via = "range"
        /\ Serves(q, FALSE, IF q.kind \in DOMAIN RangeStore THEN ProcessRangeData(q) ELSE Refused)
    BY <1>5 DEF RangeRequest
  <2>2. ~Archive!Subscription(q)
    BY <2>1 DEF Archive!Subscription
  <2>3. CASE q.kind \notin DOMAIN RangeStore
    BY <1>1, <2>1, <2>3, ServedIsServe
  <2>4. CASE q.kind \in DOMAIN RangeStore
    <3>1. Serves(q, FALSE, Answer(q))
      BY <2>1, <2>4, RangeIsWanted
    <3> QED BY <1>1, <2>2, <3>1, ServedIsServe
  <2> QED BY <2>3, <2>4
<1>6. CASE RawRequest(q)
  <2>1. /\ q.via = "raw"
        /\ Serves(q, FALSE, IF q.kind \in DOMAIN RawStore THEN ProcessRawEvents(q) ELSE Refused)
    BY <1>6 DEF RawRequest
  <2>2. ~Archive!Subscription(q)
    BY <2>1 DEF Archive!Subscription
  <2>3. CASE q.kind \notin DOMAIN RawStore
    BY <1>1, <2>1, <2>3, ServedIsServe
  <2>4. CASE q.kind \in DOMAIN RawStore
    <3>1. Serves(q, FALSE, Answer(q))
      BY <2>1, <2>4, RawIsWanted
    <3> QED BY <1>1, <2>2, <3>1, ServedIsServe
  <2> QED BY <2>3, <2>4
<1>7. CASE HogStream(q)
  <2>1. q.via = "hog" /\ Serves(q, TRUE, {})
    BY <1>7 DEF HogStream
  <2>2. Answer(q) = {} /\ Archive!Subscription(q)
    BY <2>1 DEF Answer, Archive!Wanted, Archive!Subscription
  <2> QED BY <1>1, <2>1, <2>2, ServedIsServe
<1>8. CASE CrusherStream(q)
  <2>1. q.via = "crusher" /\ Archive!Subscription(q)
    BY <1>8 DEF CrusherStream, Archive!Subscription
  <2>2. CASE \E e \in StreamScan(q) : "addr" \notin Fields[e.kind]
    <3>1. Serves(q, FALSE, Refused)
      BY <1>8, <2>2 DEF CrusherStream
    <3> QED BY <1>1, <3>1, ServedIsServe
  <2>3. CASE \A e \in StreamScan(q) : "addr" \in Fields[e.kind]
    <3>1. Serves(q, TRUE, {e \in StreamScan(q) : FilterIp(q, e)})
      BY <1>8, <2>3 DEF CrusherStream
    <3>2. Serves(q, TRUE, Answer(q))
      BY <2>1, <2>3, <3>1, CrusherIsWanted
    <3> QED BY <1>1, <2>1, <3>2, ServedIsServe
  <2> QED BY <2>2, <2>3
<1> QED BY <1>2, <1>3, <1>4, <1>5, <1>6, <1>7, <1>8 DEF Request

\* A subscription that is open is one to a kind that ingest passes on.
Subscribed ==
    client # Idle /\ client.live =>
        /\ client.asks.kind \in DOMAIN StreamStore \ {"FileCreate", "FileDelete"}
        /\ client.asks.mid = Unset

\* What an ingested event does to the archive and to a subscriber.
LEMMA IngestIsIngest ==
    ASSUME Stored, Subscribed, NEW e \in Events, Ingest(e)
    PROVE  e \in Archived' /\ Archive!Ingest(e)
<1>1. db' = {r \in db : r.cf # Family(e.kind) \/ r.key # IngestKey(e)} \cup {RecordOf(e)}
  BY Appended
<1>2. ASSUME NEW r \in db
      PROVE  (r.cf # Family(e.kind) \/ r.key # IngestKey(e)) <=> ~Archive!Same(r.event, e)
  <2>1. r.event \in Events /\ r.cf = Family(r.event.kind) /\ r.key = IngestKey(r.event)
    BY RecordFacts DEF Stored
  <2> QED BY <2>1, SameKey
<1>3. Archived' = {d \in Archived : ~Archive!Same(d, e)} \cup {e}
  <2>1. db' = {r \in db : ~Archive!Same(r.event, e)} \cup {RecordOf(e)}
    BY <1>1, <1>2
  <2>2. RecordOf(e).event = e
    BY RecordFacts
  <2>3. {r.event : r \in db'} = {d \in {r.event : r \in db} : ~Archive!Same(d, e)} \cup {e}
    BY <2>1, <2>2
  <2> QED BY <2>3 DEF Archived
<1>4. ASSUME client # Idle, client.live
      PROVE  (IngestArm[e.kind][2] = ColumnFamily[StreamStore[client.asks.kind]]
                /\ client.asks.source \in {Unset, e.source}) <=> Archive!About(client.asks, e)
  <2>1. PICK k : k = client.asks.kind
    OBVIOUS
  <2>2. k \in DOMAIN StreamStore \ {"FileCreate", "FileDelete"} /\ client.asks.mid = Unset
    BY <1>4, <2>1 DEF Subscribed
  <2>3. StreamStore[k] = Store[k] /\ k \in Kinds
    BY <2>2, StreamOpens, AllKinds DEF Opens, Subscribable
  <2>4. IngestArm[k][2] = Family(k)
    BY <2>2, StreamsArePassedOn
  <2>5. e.kind \in Kinds /\ IngestArm[e.kind][2] \in {"none", Family(e.kind)}
    BY EventFacts, IngestPuts DEF Puts
  <2>6. IngestArm[e.kind][2] = Family(k) <=> e.kind = k
    BY <2>3, <2>4, <2>5, FamilyIsOwn
  <2>7. ColumnFamily[StreamStore[k]] = Family(k)
    BY <2>3 DEF Family
  <2> QED BY <2>1, <2>2, <2>6, <2>7 DEF Archive!About
<1>5. Reaches(IngestArm[e.kind], e) <=>
         /\ client # Idle /\ client.live
         /\ Archive!About(client.asks, e) /\ e.time >= client.since
  BY <1>4 DEF Reaches
<1>6. client' = IF Reaches(IngestArm[e.kind], e) THEN [client EXCEPT !.got = @ \cup {e}]
                ELSE client
  BY DEF Ingest
<1>7. e \in Archived'
  BY <1>3
<1> QED BY <1>3, <1>5, <1>6, <1>7 DEF Archive!Ingest, Archived

\* What retention deletes at a source's turn was too old.
LEMMA RetainIsExpire ==
    ASSUME Stored, Round, NEW source \in Sources, RetainSource(source)
    PROVE  \E cutoff \in Cutoffs : Archive!Expire(cutoff)
<1>1. tick # Idle /\ db' = db \ Deleted(source, tick.cutoff) /\ client' = client
  BY DEF RetainSource
<1>2. tick.cutoff \in Cutoffs
  BY <1>1 DEF Round
<1>3. ASSUME NEW r \in db, r \notin db'
      PROVE  r.event.time < tick.cutoff
  <2>1. r \in Deleted(source, tick.cutoff)
    BY <1>1, <1>3
  <2>2. r.event \in Events /\ r = RecordOf(r.event)
    BY DEF Stored
  <2> QED BY <1>2, <2>1, <2>2, OnlyOldIsDeleted
<1>4. Archived' \subseteq Archived
  BY <1>1 DEF Archived
<1>5. \A d \in Archived \ Archived' : d.time < tick.cutoff
  BY <1>3 DEF Archived
<1>6. PICK cutoff \in Cutoffs : cutoff = tick.cutoff
  BY <1>2
<1>7. /\ {r.event : r \in db'} \subseteq {r.event : r \in db}
      /\ \A d \in {r.event : r \in db} \ {r.event : r \in db'} : d.time < cutoff
  BY <1>4, <1>5, <1>6 DEF Archived
<1>8. Archive!Expire(cutoff)
  BY <1>1, <1>7 DEF Archive!Expire
<1> QED BY <1>8

\* A step opens subscriptions only to kinds that are passed on.
LEMMA SubscribedStep ==
    ASSUME Answerable, Subscribed, [Next]_vars
    PROVE  Subscribed'
<1>1. ASSUME NEW e \in Events, Ingest(e)
      PROVE  Subscribed'
  <2>1. CASE client' = client
    BY <2>1 DEF Subscribed
  <2>2. CASE client' # client
    <3>1. client # Idle /\ client.live /\ client' = [client EXCEPT !.got = @ \cup {e}]
      BY <1>1, <2>2 DEF Ingest, Reaches
    <3>2. client'.asks = client.asks
      BY <3>1
    <3> QED BY <3>1, <3>2 DEF Subscribed
  <2> QED BY <2>1, <2>2
<1>2. ASSUME NEW q \in Requests, Request(q)
      PROVE  Subscribed'
  <2>1. ASSUME client'.live
        PROVE  q.via \in Stream /\ client'.asks = q
    <3>1. ASSUME NEW got, Serves(q, FALSE, got)
          PROVE  FALSE
      BY <2>1, <3>1 DEF Serves
    <3>2. ASSUME NEW got, Serves(q, TRUE, got)
          PROVE  client'.asks = q
      BY <3>2 DEF Serves
    <3>3. q.via \in Stream /\ \E got : Serves(q, TRUE, got)
      BY <1>2, <3>1 DEF Request, PagedQuery, SearchQuery, Export, RangeRequest, RawRequest,
                        HogStream, CrusherStream, Stream
    <3> QED BY <3>2, <3>3
  <2> QED BY <2>1, SubscriptionFacts DEF Subscribed
<1>3. CASE client' = client \/ client' = Idle
  BY <1>3 DEF Subscribed
<1>4. \/ RetainTick \/ (\E source \in Sources : RetainSource(source)) \/ RetainDone \/ Leave
      \/ StatsStep \/ UNCHANGED vars
      => client' = client \/ client' = Idle
  BY StatsFrame DEF RetainTick, RetainSource, RetainDone, Leave, vars
<1> QED BY <1>1, <1>2, <1>3, <1>4 DEF Next, Request, StatsStep

\* Every step is one of the archive or none.
LEMMA ArchiveStep ==
    ASSUME Answerable, Stored, Round, Subscribed, [Next]_vars
    PROVE  [Archive!Next]_Archive!vars
<1>1. ASSUME NEW e \in Events, Ingest(e)
      PROVE  Archive!Next
  <2>1. e \in Archived' /\ Archive!Ingest(e)
    BY <1>1, IngestIsIngest
  <2>2. e \in {r.event : r \in db'} \cap Events
    BY <2>1 DEF Archived
  <2> QED BY <2>1, <2>2 DEF Archive!Next
<1>2. ASSUME NEW source \in Sources, RetainSource(source)
      PROVE  Archive!Next
  BY <1>2, RetainIsExpire DEF Archive!Next
<1>3. ASSUME NEW q \in Requests, Request(q)
      PROVE  Archive!Next
  BY <1>3, RequestIsServe DEF Archive!Next
<1>4. CASE Leave
  BY <1>4 DEF Leave, Archive!Leave, Archive!Next
<1>5. CASE db' = db /\ client' = client
  BY <1>5 DEF Archive!vars
<1>6. RetainTick \/ RetainDone \/ StatsStep \/ UNCHANGED vars => db' = db /\ client' = client
  BY StatsFrame DEF RetainTick, RetainDone, vars
<1> QED BY <1>1, <1>2, <1>3, <1>4, <1>5, <1>6 DEF Next, Request, StatsStep

\* Whatever the sources, events, ranges and addresses: ingest, retention and
\* the seven interfaces, each with its own table of stores and its own way
\* of putting keys together, are one archive.  A client is answered with
\* exactly the events it asks for or refused, a subscriber is passed on what
\* comes in, an event replaces none but its own, and only old ones go.
THEOREM StoreImplementsArchive ==
    ASSUME Answerable
    PROVE  Spec => ImplementsArchive
<1>1. Init => Archive!Init /\ Subscribed
  BY DEF Init, Archive!Init, Subscribed
<1>2. Subscribed /\ [Next]_vars => Subscribed'
  BY SubscribedStep
<1>3. Stored /\ Round /\ Subscribed /\ [Next]_vars => [Archive!Next]_Archive!vars
  BY ArchiveStep
<1> QED BY <1>1, <1>2, <1>3, StoreInvariant, PTL DEF Spec, ImplementsArchive, Archive!Spec

-----------------------------------------------------------------------------
(* The statistics: the state of a request.                                 *)

Infos == [time : Nat, parts : SUBSET (Nat \X Events)]
Reports == [source : Sources, there : SUBSET Events, infos : Seq(Infos)]

\* The types of what a request has in hand.
StatsRecords ==
    [todo : Seq(Sources), time : StatsTimes, step : {"next", "open", "merge"}, at : Nat,
     iters : Seq(SUBSET Events), values : Seq(Events), picked : SUBSET Nat,
     now : Reports \cup {Idle}, answer : Seq(Reports)]

\* Values and picked indices are there only while iterators are merged, and
\* a value goes with an iterator.
Paired(s) ==
    /\ s.step # "next" => s.now \in Reports
    /\ s.step = "open" => s.at < MAX_CORE_SIZE
    /\ s.step # "merge" => s.values = <<>> /\ s.picked = {}
    /\ Len(s.values) <= Len(s.iters)
    /\ s.step = "merge" /\ s.at < Len(s.iters) => Len(s.values) <= s.at /\ s.picked = {}
    /\ s.picked \subseteq 1..Len(s.values)

\* An iterator is of one core, and gives one event of a timestamp.
OneCore(iter) == \A d, e \in iter : d.mid = e.mid /\ (d.time = e.time => d = e)

\* The iterators of different cores.
Apart(iters) ==
    \A i, j \in DOMAIN iters : i # j => \A d \in iters[i], e \in iters[j] : d.mid # e.mid

\* The iterators that are open have all there is of the cores before `at'.
Opened(iters, at, now) ==
    /\ now.infos = <<>>
    /\ \A i \in DOMAIN iters :
          OneCore(iters[i]) /\ iters[i] # {} /\ iters[i] \subseteq now.there
    /\ Apart(iters)
    /\ \A e \in now.there :
          e.mid \in Nat /\ e.mid < at /\ \E i \in DOMAIN iters : e \in iters[i]

\* The event is still to be given by the iterator, or it is its value and
\* has not been summed up.
Waits(iters, values, picked, i, e) ==
    e \in iters[i] \/ (i \in DOMAIN values /\ i \notin picked /\ e = values[i])

\* Every iterator goes on where its value is; what is there has been shown or
\* waits, and is older than what has been shown.
MergedIters(iters, values, at, now) ==
    /\ Len(values) = IF at < Len(iters) THEN at ELSE Len(iters)
    /\ at < Len(iters) =>
          now.infos = <<>> /\ \A i \in DOMAIN iters : i > at => iters[i] # {}
    /\ \A i \in DOMAIN iters : OneCore(iters[i]) /\ iters[i] \subseteq now.there
    /\ Apart(iters)
    /\ \A i \in DOMAIN values : values[i] \in now.there
    /\ \A i \in DOMAIN values : \A d \in iters[i] :
          d.mid = values[i].mid /\ d.time < values[i].time
    /\ \A i \in DOMAIN values, j \in DOMAIN iters :
          i # j => \A e \in iters[j] : e.mid # values[i].mid
    /\ \A i, j \in DOMAIN values : i # j => values[i].mid # values[j].mid

MergedShown(iters, values, picked, now) ==
    /\ \A i \in DOMAIN values : \A k \in DOMAIN now.infos :
          /\ values[i].time <= now.infos[k].time
          /\ i \notin picked => values[i].time < now.infos[k].time
    /\ \A e \in now.there :
          \/ \E k \in DOMAIN now.infos : e.time = now.infos[k].time
          \/ \E i \in DOMAIN iters : Waits(iters, values, picked, i, e)

\* Newest of an iterator.
LEMMA NewestFacts ==
    ASSUME NEW iter \in SUBSET Events, iter # {}
    PROVE  /\ Newest(iter) \in iter
           /\ \A d \in iter : d.time <= Newest(iter).time
           /\ \A d : d \in Older(iter) <=> d \in iter /\ d.time < Newest(iter).time
<1> DEFINE U == {MaxTime - e.time : e \in iter}
<1>1. MaxTime \in Nat /\ \A e \in iter : e.time \in Nat /\ MaxTime - e.time \in Nat
  BY EventFacts, TimesAssumption
<1>2. U \in SUBSET Nat /\ U # {}
  BY <1>1
<1>3. PICK u \in U : \A v \in U : u <= v
  BY <1>2, LeastNat
<1>4. PICK m \in iter : u = MaxTime - m.time
  BY <1>3
<1>5. ASSUME NEW d \in iter PROVE ~Newer(d, m)
  <2>1. MaxTime - m.time <= MaxTime - d.time
    BY <1>3, <1>4
  <2> QED BY <1>1, <2>1 DEF Newer
<1>6. Newest(iter) \in iter /\ \A d \in iter : ~Newer(d, Newest(iter))
  BY <1>5 DEF Newest
<1> HIDE DEF U
<1>7. \A d : d \in Older(iter) <=> d \in iter /\ Newer(Newest(iter), d)
  BY DEF Older
<1>8. PICK n \in iter : n = Newest(iter)
  BY <1>6
<1> QED BY <1>1, <1>6, <1>7, <1>8 DEF Newer

\* What an iterator of one core has to give after its newest.
LEMMA OlderFacts ==
    ASSUME NEW iter \in SUBSET Events, iter # {}, OneCore(iter)
    PROVE  /\ Older(iter) \in SUBSET iter /\ OneCore(Older(iter))
           /\ \A d \in iter : d \in Older(iter) \/ d = Newest(iter)
           /\ \A d \in Older(iter) : d.mid = Newest(iter).mid /\ d.time < Newest(iter).time
<1>1. /\ Newest(iter) \in iter
      /\ \A d \in iter : d.time <= Newest(iter).time
      /\ \A d : d \in Older(iter) <=> d \in iter /\ d.time < Newest(iter).time
  BY NewestFacts
<1>2. \A d \in iter : d.time \in Nat
  BY EventFacts
<1>3. PICK n \in iter : n = Newest(iter)
  BY <1>1
<1>4. \A d \in iter : d.time = n.time => d = n
  BY DEF OneCore
<1>5. \A d \in iter : d.time = n.time \/ d.time < n.time
  BY <1>1, <1>2, <1>3
<1> QED BY <1>1, <1>3, <1>4, <1>5 DEF OneCore

\* The greatest of some numbers up to a bound.
LEMMA MaxFacts ==
    ASSUME NEW n \in Nat, NEW T \in SUBSET (0..n), T # {}
    PROVE  Max(T) \in T /\ \A t \in T : t <= Max(T)
<1> DEFINE U == {n - t : t \in T}
<1>1. \A t \in T : t \in Nat /\ n - t \in Nat
  OBVIOUS
<1>2. U \in SUBSET Nat /\ U # {}
  BY <1>1
<1>3. PICK u \in U : \A v \in U : u <= v
  BY <1>2, LeastNat
<1>4. PICK m \in T : u = n - m
  BY <1>3
<1>5. ASSUME NEW t \in T PROVE m >= t
  BY <1>1, <1>3, <1>4
<1> HIDE DEF U
<1>6. Max(T) \in T /\ \A t \in T : Max(T) >= t
  BY <1>5 DEF Max
<1> QED BY <1>1, <1>6

\* An element of a sequence is replaced.
LEMMA ReplacedFacts ==
    ASSUME NEW S, NEW s \in Seq(S), NEW k \in 1..Len(s), NEW x \in S
    PROVE  /\ [s EXCEPT ![k] = x] \in Seq(S) /\ Len([s EXCEPT ![k] = x]) = Len(s)
           /\ DOMAIN [s EXCEPT ![k] = x] = 1..Len(s) /\ [s EXCEPT ![k] = x][k] = x
           /\ \A i \in 1..Len(s) : i # k => [s EXCEPT ![k] = x][i] = s[i]
<1>1. DOMAIN s = 1..Len(s) /\ Len(s) \in Nat
  OBVIOUS
<1>2. [s EXCEPT ![k] = x] \in [1..Len(s) -> S]
  BY <1>1
<1> QED BY <1>1, <1>2

\* An element is put behind a sequence.
LEMMA AppendFacts ==
    ASSUME NEW S, NEW s \in Seq(S), NEW x \in S
    PROVE  /\ Append(s, x) \in Seq(S) /\ Len(Append(s, x)) = Len(s) + 1
           /\ DOMAIN Append(s, x) = 1..(Len(s) + 1) /\ Append(s, x)[Len(s) + 1] = x
           /\ \A i \in 1..Len(s) : Append(s, x)[i] = s[i]
OBVIOUS

\* An element is removed from a sequence.
LEMMA RemoveAtFacts ==
    ASSUME NEW S, NEW s \in Seq(S), NEW k \in 1..Len(s)
    PROVE  /\ RemoveAt(s, k) \in Seq(S) /\ Len(RemoveAt(s, k)) = Len(s) - 1
           /\ \A i \in 1..(Len(s) - 1) : RemoveAt(s, k)[i] = IF i < k THEN s[i] ELSE s[i + 1]
<1> DEFINE r == RemoveAt(s, k)  a == SubSeq(s, 1, k - 1)  b == SubSeq(s, k + 1, Len(s))
<1>1. k \in Nat /\ Len(s) \in Nat /\ 1 <= k /\ k <= Len(s)
  OBVIOUS
<1>2. /\ a \in Seq(S) /\ Len(a) = k - 1
      /\ \A i \in 1..(k - 1) : a[i] = s[i]
  BY <1>1
<1>3. /\ b \in Seq(S) /\ Len(b) = Len(s) - k
      /\ \A i \in 1..(Len(s) - k) : b[i] = s[k + i]
  BY <1>1, SubSeqProperties
<1>4. r = a \o b
  BY DEF RemoveAt
<1> HIDE DEF a, b, r
<1>5. /\ r \in Seq(S) /\ Len(r) = Len(a) + Len(b)
      /\ \A i \in 1..(Len(a) + Len(b)) : r[i] = IF i <= Len(a) THEN a[i] ELSE b[i - Len(a)]
  BY <1>2, <1>3, <1>4, ConcatProperties
<1>6. /\ Len(r) = Len(s) - 1
      /\ \A i \in 1..Len(r) : r[i] = IF i < k THEN a[i] ELSE b[i - (k - 1)]
  BY <1>1, <1>2, <1>3, <1>5
<1>7. ASSUME NEW i \in 1..Len(r), i >= k PROVE b[i - (k - 1)] = s[i + 1]
  <2>1. i - (k - 1) \in 1..(Len(s) - k) /\ k + (i - (k - 1)) = i + 1
    BY <1>1, <1>6, <1>7
  <2> QED BY <1>3, <2>1
<1>8. \A i \in 1..Len(r) : r[i] = IF i < k THEN s[i] ELSE s[i + 1]
  BY <1>1, <1>2, <1>6, <1>7
<1> QED BY <1>5, <1>6, <1>8 DEF r

\* The sequences that are merged.
Hands(iters, values, at, now) ==
    /\ iters \in Seq(SUBSET Events) /\ values \in Seq(Events)
    /\ at \in Nat /\ now \in Reports

\* The times of events and of what has been shown are numbers.
LEMMA TimesAreNat ==
    ASSUME NEW iters, NEW values, NEW at, NEW now, Hands(iters, values, at, now)
    PROVE  /\ \A e \in Events : e.time \in Nat
           /\ \A i \in DOMAIN iters : iters[i] \in SUBSET Events
           /\ \A i \in DOMAIN values : values[i] \in Events
           /\ \A k \in DOMAIN now.infos : now.infos[k].time \in Nat
           /\ DOMAIN iters = 1..Len(iters) /\ DOMAIN values = 1..Len(values)
           /\ Len(iters) \in Nat /\ Len(values) \in Nat
<1>1. \A e \in Events : e.time \in Nat
  BY EventFacts
<1>2. iters \in Seq(SUBSET Events) /\ values \in Seq(Events) /\ now.infos \in Seq(Infos)
  BY DEF Hands, Reports
<1>3. \A k \in DOMAIN now.infos : now.infos[k] \in Infos
  BY <1>2
<1>4. \A x \in Infos : x.time \in Nat
  BY DEF Infos
<1> QED BY <1>1, <1>2, <1>3, <1>4

\* When the cores have been opened, the merge may begin.
LEMMA OpenedMerged ==
    ASSUME NEW iters, NEW now, NEW at, Hands(iters, <<>>, 0, now), Opened(iters, at, now)
    PROVE  MergedIters(iters, <<>>, 0, now) /\ MergedShown(iters, <<>>, {}, now)
<1>1. Len(iters) \in Nat /\ DOMAIN iters = 1..Len(iters)
  BY TimesAreNat
<1>2. Len(<<>>) = 0 /\ DOMAIN <<>> = {}
  OBVIOUS
<1>3. MergedIters(iters, <<>>, 0, now)
  BY <1>1, <1>2 DEF Opened, MergedIters
<1>4. MergedShown(iters, <<>>, {}, now)
  BY <1>1, <1>2 DEF Opened, MergedShown, Waits
<1> QED BY <1>3, <1>4

\* An iterator gives its first value.
LEMMA FirstMerged ==
    ASSUME NEW iters, NEW values, NEW at, NEW now, Hands(iters, values, at, now),
           MergedIters(iters, values, at, now), MergedShown(iters, values, {}, now),
           at < Len(iters), NEW iters2, NEW values2,
           iters2 = [iters EXCEPT ![at + 1] = Older(iters[at + 1])],
           values2 = Append(values, Newest(iters[at + 1]))
    PROVE  /\ iters[at + 1] # {}
           /\ MergedIters(iters2, values2, at + 1, now) /\ MergedShown(iters2, values2, {}, now)
<1> DEFINE m == at + 1
<1>1. /\ \A e \in Events : e.time \in Nat
      /\ \A i \in DOMAIN iters : iters[i] \in SUBSET Events
      /\ DOMAIN iters = 1..Len(iters) /\ DOMAIN values = 1..Len(values)
      /\ Len(iters) \in Nat /\ Len(values) \in Nat /\ at \in Nat
  BY TimesAreNat DEF Hands
<1>2. Len(values) = at /\ now.infos = <<>> /\ m \in DOMAIN iters /\ iters[m] # {}
  BY <1>1 DEF MergedIters
<1>3. PICK it \in SUBSET Events : it = iters[m] /\ it # {} /\ OneCore(it) /\ it \subseteq now.there
  BY <1>1, <1>2 DEF MergedIters
<1>4. PICK n \in it : n = Newest(it)
  BY <1>3, NewestFacts
<1>5. PICK old \in SUBSET it :
         /\ old = Older(it) /\ OneCore(old) /\ \A d \in it : d \in old \/ d = n
         /\ \A d \in old : d.mid = n.mid /\ d.time < n.time
  BY <1>3, <1>4, OlderFacts
<1>6. /\ DOMAIN iters2 = 1..Len(iters) /\ Len(iters2) = Len(iters) /\ iters2[m] = old
      /\ \A i \in DOMAIN iters : i # m => iters2[i] = iters[i]
  <2>1. iters2 = [iters EXCEPT ![m] = old] /\ iters \in Seq(SUBSET Events)
    BY <1>3, <1>5 DEF Hands
  <2>2. old \in SUBSET Events /\ m \in 1..Len(iters)
    BY <1>1, <1>2, <1>3, <1>5
  <2> HIDE DEF m
  <2> QED BY <1>1, <2>1, <2>2, ReplacedFacts
<1>7. /\ DOMAIN values2 = 1..m /\ Len(values2) = m /\ values2[m] = n
      /\ \A i \in DOMAIN values : values2[i] = values[i]
  <2>1. values2 = Append(values, n) /\ values \in Seq(Events) /\ n \in Events
    BY <1>3, <1>4 DEF Hands
  <2> QED BY <1>1, <1>2, <2>1
<1>8. \A i \in 1..m : i \in DOMAIN values \/ i = m
  BY <1>1, <1>2
<1>9. \A i \in DOMAIN values : i \in DOMAIN iters /\ i # m
  BY <1>1, <1>2
<1>10. \A i \in DOMAIN iters2 : i \in DOMAIN iters /\ iters2[i] \subseteq iters[i]
  BY <1>1, <1>3, <1>5, <1>6
<1> HIDE DEF m
<1>11. \A i \in DOMAIN iters2 : OneCore(iters2[i]) /\ iters2[i] \subseteq now.there
  BY <1>3, <1>5, <1>6, <1>10 DEF MergedIters
<1>12. Apart(iters2)
  BY <1>10 DEF MergedIters, Apart
<1>13. \A i \in DOMAIN values2 : values2[i] \in now.there
  BY <1>3, <1>7, <1>8 DEF MergedIters
<1>14. \A i \in DOMAIN values2 : \A d \in iters2[i] :
          d.mid = values2[i].mid /\ d.time < values2[i].time
  BY <1>5, <1>6, <1>7, <1>8, <1>9 DEF MergedIters
<1>15. ASSUME NEW i \in DOMAIN values2, NEW j \in DOMAIN iters2, i # j, NEW e \in iters2[j]
       PROVE  e.mid # values2[i].mid
  <2>1. j \in DOMAIN iters /\ e \in iters[j]
    BY <1>10
  <2>2. CASE i = m
    BY <1>2, <1>3, <1>4, <1>7, <1>15, <2>1, <2>2 DEF MergedIters, Apart
  <2>3. CASE i \in DOMAIN values
    BY <1>7, <1>15, <2>1, <2>3 DEF MergedIters
  <2> QED BY <1>7, <1>8, <2>2, <2>3
<1>16. ASSUME NEW i \in DOMAIN values2, NEW j \in DOMAIN values2, i # j
       PROVE  values2[i].mid # values2[j].mid
  <2>1. \A k \in DOMAIN values : n.mid # values[k].mid
    BY <1>2, <1>3, <1>4, <1>9 DEF MergedIters
  <2> QED BY <1>7, <1>8, <1>16, <2>1 DEF MergedIters
<1>17. MergedIters(iters2, values2, at + 1, now)
  <2>1. Len(values2) = IF at + 1 < Len(iters2) THEN at + 1 ELSE Len(iters2)
    BY <1>1, <1>2, <1>6, <1>7 DEF m
  <2>2. \A i \in DOMAIN iters2 : i > at + 1 => iters2[i] # {}
    BY <1>1, <1>2, <1>6 DEF m, MergedIters
  <2> QED BY <1>2, <1>11, <1>12, <1>13, <1>14, <1>15, <1>16, <2>1, <2>2 DEF MergedIters
<1>18. ASSUME NEW e \in now.there
       PROVE  \E i \in DOMAIN iters2 : Waits(iters2, values2, {}, i, e)
  <2>1. PICK i \in DOMAIN iters : Waits(iters, values, {}, i, e)
    BY <1>2, <1>18 DEF MergedShown
  <2>2. Waits(iters2, values2, {}, i, e)
    BY <1>2, <1>3, <1>5, <1>6, <1>7, <1>8, <1>9, <2>1 DEF Waits
  <2> QED BY <1>1, <1>6, <2>2
<1>19. MergedShown(iters2, values2, {}, now)
  <2>1. DOMAIN now.infos = {}
    BY <1>2
  <2> QED BY <1>18, <2>1 DEF MergedShown
<1> QED BY <1>2, <1>17, <1>19 DEF m

\* What a round shows.
NewestTime(values) == Max({values[i].time : i \in DOMAIN values})
InfoOf(values, newest, picked) ==
    [time |-> newest, parts |-> {<<i, values[i]>> : i \in picked}]
WithInfo(now, info) == [now EXCEPT !.infos = Append(@, info)]

\* A round sums up the values with the newest timestamp.
LEMMA RoundMerged ==
    ASSUME NEW iters, NEW values, NEW at, NEW now, Hands(iters, values, at, now),
           MergedIters(iters, values, at, now), MergedShown(iters, values, {}, now), Exact(now),
           at >= Len(iters), values # <<>>, NEW newest, NEW picked, NEW info, NEW now2,
           newest = NewestTime(values), picked = Picked(values, newest),
           info = InfoOf(values, newest, picked), now2 = WithInfo(now, info)
    PROVE  /\ now2 \in Reports /\ now2.there = now.there /\ Len(now2.infos) = Len(now.infos) + 1
           /\ MergedIters(iters, values, at, now2) /\ MergedShown(iters, values, picked, now2)
           /\ Exact(now2)
<1> DEFINE T == {values[i].time : i \in DOMAIN values}
           n == Len(now.infos) + 1
<1>1. /\ \A e \in Events : e.time \in Nat
      /\ \A i \in DOMAIN iters : iters[i] \in SUBSET Events
      /\ \A i \in DOMAIN values : values[i] \in Events
      /\ \A k \in DOMAIN now.infos : now.infos[k].time \in Nat
      /\ DOMAIN iters = 1..Len(iters) /\ DOMAIN values = 1..Len(values)
      /\ Len(iters) \in Nat /\ Len(values) \in Nat /\ at \in Nat
  BY TimesAreNat DEF Hands
<1>2. /\ now \in Reports /\ now.infos \in Seq(Infos) /\ values \in Seq(Events)
      /\ now.there \in SUBSET Events
  BY DEF Hands, Reports
<1>3. newest \in Nat /\ newest \in T /\ \A t \in T : t <= newest
  <2>1. 1 \in DOMAIN values
    BY <1>1, <1>2
  <2>2. T # {} /\ MaxTime \in Nat
    BY <2>1, TimesAssumption
  <2>3. T \in SUBSET (0..MaxTime)
    BY <1>1, EventFacts, TimesAssumption
  <2> HIDE DEF T
  <2>4. Max(T) \in T /\ \A t \in T : t <= Max(T)
    BY <2>2, <2>3, MaxFacts
  <2>5. newest = Max(T)
    BY DEF T, NewestTime
  <2>6. MaxTime \in Nat
    BY TimesAssumption
  <2>7. newest \in T /\ \A t \in T : t <= newest
    BY <2>4, <2>5, Zenon
  <2>8. newest \in Nat
    BY <2>3, <2>6, <2>7
  <2> QED BY <2>7, <2>8
<1>4. /\ \A i \in DOMAIN values : values[i].time <= newest
      /\ \A i : i \in picked <=> i \in DOMAIN values /\ values[i].time = newest
      /\ \E i \in DOMAIN values : values[i].time = newest
  BY <1>3 DEF Picked
<1> HIDE DEF T
<1>5. info \in Infos
  BY <1>1, <1>3, <1>4 DEF Infos, InfoOf
<1>6. info.time = newest /\ info.parts = {<<i, values[i]>> : i \in picked}
  BY DEF InfoOf
<1>7. now2 = [now EXCEPT !.infos = Append(now.infos, info)]
  BY DEF WithInfo
<1>8. now2.infos = Append(now.infos, info) /\ now2.there = now.there /\ now2.source = now.source
  BY <1>2, <1>7 DEF Reports
<1>9. now2 \in Reports
  <2>1. Append(now.infos, info) \in Seq(Infos)
    BY <1>2, <1>5
  <2> QED BY <1>2, <1>7, <2>1 DEF Reports
<1>10. /\ DOMAIN now2.infos = 1..n /\ Len(now2.infos) = n /\ n \in Nat \ {0} /\ now2.infos[n] = info
       /\ DOMAIN now.infos = 1..(n - 1)
       /\ \A k \in DOMAIN now.infos : k \in 1..n /\ k < n /\ now2.infos[k] = now.infos[k]
       /\ \A k \in 1..n : k = n \/ k \in DOMAIN now.infos
  <2>1. /\ Len(now2.infos) = Len(now.infos) + 1
        /\ \A k \in 1..Len(now.infos) : now2.infos[k] = now.infos[k]
        /\ now2.infos[Len(now.infos) + 1] = info
        /\ DOMAIN now2.infos = 1..(Len(now.infos) + 1)
    <3>1. PICK old \in Seq(Infos), x \in Infos : old = now.infos /\ x = info
      BY <1>2, <1>5, Zenon
    <3>2. now2.infos = Append(old, x)
      BY <1>8, <3>1, Zenon
    <3>3. /\ Len(Append(old, x)) = Len(old) + 1
          /\ \A k \in 1..Len(old) : Append(old, x)[k] = old[k]
          /\ Append(old, x)[Len(old) + 1] = x
          /\ DOMAIN Append(old, x) = 1..(Len(old) + 1)
      BY AppendFacts
    <3> QED BY <3>1, <3>2, <3>3, Zenon
  <2>2. Len(now.infos) \in Nat /\ DOMAIN now.infos = 1..Len(now.infos)
    BY <1>2
  <2>3. n = Len(now.infos) + 1
    OBVIOUS
  <2> HIDE DEF n
  <2> QED BY <2>1, <2>2, <2>3
<1> HIDE DEF n
<1>11. MergedIters(iters, values, at, now2)
  BY <1>1, <1>8 DEF MergedIters
<1>12. \A k \in DOMAIN now.infos : newest < now.infos[k].time
  BY <1>4 DEF MergedShown
<1>13. ASSUME NEW e \in now.there
       PROVE  \/ \E k \in DOMAIN now.infos : e.time = now.infos[k].time
              \/ \E i \in DOMAIN iters : e \in iters[i] /\ e.time < newest
              \/ \E i \in DOMAIN values : e = values[i]
  <2>1. CASE \E i \in DOMAIN iters : Waits(iters, values, {}, i, e)
    <3>1. PICK i \in DOMAIN iters : Waits(iters, values, {}, i, e)
      BY <2>1
    <3>2. CASE e \in iters[i]
      <4>1. i \in DOMAIN values
        BY <1>1 DEF MergedIters
      <4>2. e.time < values[i].time /\ values[i].time <= newest
        BY <1>4, <3>2, <4>1 DEF MergedIters
      <4>3. e \in Events /\ values[i] \in Events
        BY <1>1, <3>2, <4>1
      <4>4. e.time < newest
        BY <1>1, <1>3, <4>2, <4>3
      <4> QED BY <3>2, <4>4
    <3> QED BY <3>1, <3>2 DEF Waits
  <2> QED BY <2>1 DEF MergedShown
<1>14. \A e \in now.there : e.time \in Nat
  BY <1>1, <1>2
<1>15. MergedShown(iters, values, picked, now2)
  <2>1. ASSUME NEW i \in DOMAIN values, NEW k \in DOMAIN now2.infos
        PROVE  /\ values[i].time <= now2.infos[k].time
               /\ i \notin picked => values[i].time < now2.infos[k].time
    <3>1. CASE k = n
      <4>1. now2.infos[k].time = newest
        BY <1>6, <1>10, <3>1
      <4>2. values[i].time \in Nat
        BY <1>1
      <4> QED BY <1>3, <1>4, <4>1, <4>2
    <3>2. CASE k \in DOMAIN now.infos
      BY <1>1, <1>10, <3>2 DEF MergedShown
    <3> QED BY <1>10, <3>1, <3>2
  <2>2. ASSUME NEW e \in now.there
        PROVE  \/ \E k \in DOMAIN now2.infos : e.time = now2.infos[k].time
               \/ \E i \in DOMAIN iters : Waits(iters, values, picked, i, e)
    <3>1. CASE \E k \in DOMAIN now.infos : e.time = now.infos[k].time
      BY <1>10, <3>1
    <3>2. CASE \E i \in DOMAIN iters : e \in iters[i]
      BY <3>2 DEF Waits
    <3>3. CASE \E i \in DOMAIN values : e = values[i]
      <4>1. PICK i \in DOMAIN values : e = values[i]
        BY <3>3
      <4>2. CASE i \in picked
        <5>1. e.time = newest
          BY <1>4, <4>1, <4>2
        <5>2. now2.infos[n].time = newest
          BY <1>6, <1>10
        <5>3. n \in DOMAIN now2.infos
          <6>1. n >= 1
            BY <1>10
          <6> QED BY <1>10, <6>1
        <5> QED BY <5>1, <5>2, <5>3
      <4>3. CASE i \notin picked
        <5>1. i \in DOMAIN iters
          BY <1>1 DEF MergedIters
        <5> QED BY <4>1, <4>3, <5>1 DEF Waits
      <4> QED BY <4>2, <4>3
    <3> QED BY <1>13, <3>1, <3>2, <3>3
  <2> QED BY <1>8, <2>1, <2>2 DEF MergedShown
<1>16. Whole(info, now.there)
  <2>1. ASSUME NEW e \in now.there, e.time = newest
        PROVE  \E i \in picked : e = values[i]
    <3>1. \A k \in DOMAIN now.infos : e.time # now.infos[k].time
      <4> SUFFICES ASSUME NEW k \in DOMAIN now.infos PROVE e.time # now.infos[k].time
        OBVIOUS
      <4>1. newest < now.infos[k].time /\ now.infos[k].time \in Nat
        BY <1>1, <1>12
      <4> QED BY <1>3, <2>1, <4>1
    <3>2. ~(e.time < newest)
      BY <1>3, <2>1
    <3>3. PICK i \in DOMAIN values : e = values[i]
      BY <1>13, <3>1, <3>2
    <3> QED BY <1>4, <2>1, <3>3
  <2>2. \A i \in picked : values[i] \in now.there /\ values[i].time = newest
    BY <1>4 DEF MergedIters
  <2>3. /\ \A p \in info.parts : \E i \in picked : p = <<i, values[i]>>
        /\ \A i \in picked : <<i, values[i]>> \in info.parts
    BY <1>6
  <2>4. {p[2] : p \in info.parts} = {e \in now.there : e.time = info.time}
    <3>1. ASSUME NEW p \in info.parts PROVE p[2] \in now.there /\ p[2].time = newest
      BY <2>2, <2>3
    <3>2. ASSUME NEW e \in now.there, e.time = newest PROVE \E p \in info.parts : e = p[2]
      BY <2>1, <2>3, <3>2
    <3>3. info.time = newest
      BY <1>6
    <3>4. \A e : e \in {p[2] : p \in info.parts} <=> e \in {d \in now.there : d.time = newest}
      BY <3>1, <3>2
    <3> QED BY <3>3, <3>4
  <2>5. \A i, j \in picked : values[i] = values[j] => i = j
    BY <1>4 DEF MergedIters
  <2>6. \A p, q \in info.parts : p[2] = q[2] => p = q
    BY <2>3, <2>5
  <2> QED BY <2>4, <2>6 DEF Whole
<1>17. ASSUME NEW e \in now.there PROVE ~Newer(e, now2.infos[1])
  <2>1. CASE now.infos = <<>>
    <3>1. n = 1 /\ DOMAIN now.infos = {}
      BY <2>1 DEF n
    <3>2. e.time <= newest
      BY <1>1, <1>3, <1>4, <1>13, <1>14, <3>1
    <3> QED BY <1>3, <1>6, <1>10, <1>14, <3>1, <3>2 DEF Newer
  <2>2. CASE now.infos # <<>>
    <3>1. 1 \in DOMAIN now.infos
      BY <1>2, <2>2
    <3> QED BY <1>10, <3>1 DEF Exact
  <2> QED BY <2>1, <2>2
<1>18. ASSUME NEW j \in DOMAIN now2.infos
       PROVE  /\ Whole(now2.infos[j], now2.there)
              /\ \A k \in 1..(j - 1) : Newer(now2.infos[k], now2.infos[j])
  <2>1. CASE j = n
    <3>1. \A k \in 1..(n - 1) : Newer(now2.infos[k], info)
      BY <1>3, <1>6, <1>10, <1>12, <1>1 DEF Newer
    <3> QED BY <1>8, <1>10, <1>16, <2>1, <3>1
  <2>2. CASE j \in DOMAIN now.infos
    <3>1. \A k \in 1..(j - 1) : k \in DOMAIN now.infos
      BY <1>10, <2>2
    <3> QED BY <1>8, <1>10, <2>2, <3>1 DEF Exact
  <2> QED BY <1>10, <2>1, <2>2
<1>19. Exact(now2)
  BY <1>8, <1>17, <1>18 DEF Exact
<1> QED BY <1>8, <1>9, <1>10, <1>11, <1>15, <1>19 DEF n

\* The value at a picked index is replaced by the next one.
LEMMA ReplaceMerged ==
    ASSUME NEW iters, NEW values, NEW at, NEW now, Hands(iters, values, at, now),
           NEW picked, NEW m \in picked, picked \subseteq DOMAIN values,
           MergedIters(iters, values, at, now), MergedShown(iters, values, picked, now),
           at >= Len(iters), iters[m] # {}, NEW iters2, NEW values2,
           iters2 = [iters EXCEPT ![m] = Older(iters[m])],
           values2 = [values EXCEPT ![m] = Newest(iters[m])]
    PROVE  /\ MergedIters(iters2, values2, at, now)
           /\ MergedShown(iters2, values2, picked \ {m}, now)
<1>1. /\ \A e \in Events : e.time \in Nat
      /\ \A i \in DOMAIN iters : iters[i] \in SUBSET Events
      /\ \A i \in DOMAIN values : values[i] \in Events
      /\ \A k \in DOMAIN now.infos : now.infos[k].time \in Nat
      /\ DOMAIN iters = 1..Len(iters) /\ DOMAIN values = 1..Len(values)
      /\ Len(iters) \in Nat /\ Len(values) \in Nat /\ at \in Nat
  BY TimesAreNat DEF Hands
<1>2. Len(values) = Len(iters) /\ DOMAIN values = DOMAIN iters /\ m \in DOMAIN iters
  BY <1>1 DEF MergedIters
<1>3. PICK it \in SUBSET Events : it = iters[m] /\ it # {} /\ OneCore(it) /\ it \subseteq now.there
  BY <1>1, <1>2 DEF MergedIters
<1>4. PICK n \in it : n = Newest(it)
  BY <1>3, NewestFacts
<1>5. PICK old \in SUBSET it :
         /\ old = Older(it) /\ OneCore(old) /\ \A d \in it : d \in old \/ d = n
         /\ \A d \in old : d.mid = n.mid /\ d.time < n.time
  BY <1>3, <1>4, OlderFacts
<1>6. /\ DOMAIN iters2 = DOMAIN iters /\ Len(iters2) = Len(iters) /\ iters2[m] = old
      /\ \A i \in DOMAIN iters : i # m => iters2[i] = iters[i]
  <2>1. iters2 = [iters EXCEPT ![m] = old] /\ iters \in Seq(SUBSET Events)
    BY <1>3, <1>5 DEF Hands
  <2>2. old \in SUBSET Events /\ m \in 1..Len(iters)
    BY <1>1, <1>2, <1>3, <1>5
  <2> QED BY <1>1, <2>1, <2>2, ReplacedFacts
<1>7. /\ DOMAIN values2 = DOMAIN values /\ Len(values2) = Len(values) /\ values2[m] = n
      /\ \A i \in DOMAIN values : i # m => values2[i] = values[i]
  <2>1. values2 = [values EXCEPT ![m] = n] /\ values \in Seq(Events)
    BY <1>3, <1>4 DEF Hands
  <2>2. n \in Events /\ m \in 1..Len(values)
    BY <1>1, <1>2, <1>3, <1>4
  <2> QED BY <1>1, <2>1, <2>2, ReplacedFacts
<1>8. \A i \in DOMAIN iters2 : i \in DOMAIN iters /\ iters2[i] \subseteq iters[i]
  BY <1>3, <1>5, <1>6
<1>9. n.mid = values[m].mid /\ n.time < values[m].time
  BY <1>2, <1>3, <1>4 DEF MergedIters
<1>10. \A i \in DOMAIN iters2 : OneCore(iters2[i]) /\ iters2[i] \subseteq now.there
  BY <1>3, <1>5, <1>6, <1>8 DEF MergedIters
<1>11. Apart(iters2)
  BY <1>8 DEF MergedIters, Apart
<1>12. \A i \in DOMAIN values2 : values2[i] \in now.there
  BY <1>3, <1>7 DEF MergedIters
<1>13. \A i \in DOMAIN values2 : \A d \in iters2[i] :
          d.mid = values2[i].mid /\ d.time < values2[i].time
  BY <1>2, <1>5, <1>6, <1>7 DEF MergedIters
<1>14. \A i \in DOMAIN values2 : i \in DOMAIN values /\ values2[i].mid = values[i].mid
  BY <1>7, <1>9
<1>15. \A i \in DOMAIN values2, j \in DOMAIN iters2 :
          i # j => \A e \in iters2[j] : e.mid # values2[i].mid
  BY <1>8, <1>14 DEF MergedIters
<1>16. \A i, j \in DOMAIN values2 : i # j => values2[i].mid # values2[j].mid
  BY <1>14 DEF MergedIters
<1>17. MergedIters(iters2, values2, at, now)
  <2>1. Len(values2) = (IF at < Len(iters2) THEN at ELSE Len(iters2)) /\ ~(at < Len(iters2))
    BY <1>1, <1>2, <1>6, <1>7
  <2> QED BY <1>10, <1>11, <1>12, <1>13, <1>15, <1>16, <2>1 DEF MergedIters
<1>18. ASSUME NEW i \in DOMAIN values2, NEW k \in DOMAIN now.infos
       PROVE  /\ values2[i].time <= now.infos[k].time
              /\ i \notin picked \ {m} => values2[i].time < now.infos[k].time
  <2>1. CASE i # m
    BY <1>7, <2>1 DEF MergedShown
  <2>2. CASE i = m
    <3>1. values[m].time <= now.infos[k].time
      BY <1>2 DEF MergedShown
    <3>2. n.time \in Nat /\ values[m].time \in Nat /\ now.infos[k].time \in Nat
      BY <1>1, <1>2, <1>3, <1>4
    <3> QED BY <1>7, <1>9, <2>2, <3>1, <3>2
  <2> QED BY <2>1, <2>2
<1>19. ASSUME NEW i \in DOMAIN iters, NEW e, Waits(iters, values, picked, i, e)
       PROVE  Waits(iters2, values2, picked \ {m}, i, e)
  <2>1. CASE i # m
    BY <1>6, <1>7, <1>19, <2>1 DEF Waits
  <2>2. CASE i = m
    BY <1>2, <1>3, <1>5, <1>6, <1>7, <1>19, <2>2 DEF Waits
  <2> QED BY <2>1, <2>2
<1>20. MergedShown(iters2, values2, picked \ {m}, now)
  BY <1>6, <1>18, <1>19 DEF MergedShown
<1> QED BY <1>17, <1>20

\* An iterator that has nothing left is removed, and its value.
LEMMA RemoveMerged ==
    ASSUME NEW iters, NEW values, NEW at, NEW now, Hands(iters, values, at, now),
           NEW picked, NEW m \in picked, picked \subseteq DOMAIN values,
           \A i \in picked : i <= m,
           MergedIters(iters, values, at, now), MergedShown(iters, values, picked, now),
           at >= Len(iters), iters[m] = {}, NEW iters2, NEW values2,
           iters2 = RemoveAt(iters, m), values2 = RemoveAt(values, m)
    PROVE  /\ MergedIters(iters2, values2, at, now)
           /\ MergedShown(iters2, values2, picked \ {m}, now)
<1> DEFINE o(i) == IF i < m THEN i ELSE i + 1
<1>1. /\ Len(iters) \in Nat /\ Len(values) \in Nat /\ at \in Nat
      /\ DOMAIN iters = 1..Len(iters) /\ DOMAIN values = 1..Len(values)
  BY TimesAreNat DEF Hands
<1>2. Len(values) = Len(iters) /\ m \in 1..Len(iters)
  BY <1>1 DEF MergedIters
<1>3. PICK len \in Nat : Len(iters) = len + 1
  <2>1. \A x \in Nat : m \in 1..x => x - 1 \in Nat /\ x = (x - 1) + 1
    OBVIOUS
  <2>2. Len(iters) - 1 \in Nat /\ Len(iters) = (Len(iters) - 1) + 1
    BY <1>1, <1>2, <2>1
  <2> QED BY <2>2
<1>4. /\ DOMAIN iters2 = 1..len /\ Len(iters2) = len
      /\ \A i \in 1..len : iters2[i] = iters[o(i)]
  <2>1. iters \in Seq(SUBSET Events)
    BY DEF Hands
  <2>2. /\ iters2 \in Seq(SUBSET Events) /\ Len(iters2) = Len(iters) - 1
        /\ \A i \in 1..(Len(iters) - 1) : iters2[i] = IF i < m THEN iters[i] ELSE iters[i + 1]
    BY <1>2, <2>1, RemoveAtFacts
  <2> QED BY <1>3, <2>2
<1>5. /\ DOMAIN values2 = 1..len /\ Len(values2) = len
      /\ \A i \in 1..len : values2[i] = values[o(i)]
  <2>1. values \in Seq(Events) /\ m \in 1..Len(values)
    BY <1>2 DEF Hands
  <2>2. /\ values2 \in Seq(Events) /\ Len(values2) = Len(values) - 1
        /\ \A i \in 1..(Len(values) - 1) : values2[i] = IF i < m THEN values[i] ELSE values[i + 1]
    BY <2>1, RemoveAtFacts
  <2> QED BY <1>2, <1>3, <2>2
<1>6. /\ \A i \in 1..len : o(i) \in DOMAIN iters /\ o(i) \in DOMAIN values /\ o(i) # m
      /\ \A i, j \in 1..len : i # j => o(i) # o(j)
      /\ \A i \in DOMAIN iters : i # m => \E j \in 1..len : o(j) = i
  <2>1. m \in Nat
    BY <1>2
  <2>2. \A i \in 1..len : o(i) \in 1..(len + 1) /\ o(i) # m
    BY <1>2, <1>3, <2>1
  <2>3. \A i, j \in 1..len : i # j => o(i) # o(j)
    BY <2>1
  <2>4. ASSUME NEW i \in 1..(len + 1), i # m PROVE \E j \in 1..len : o(j) = i
    <3>1. CASE i < m
      BY <1>2, <1>3, <2>1, <3>1
    <3>2. CASE i > m
      <4>1. i - 1 \in 1..len /\ ~(i - 1 < m) /\ (i - 1) + 1 = i
        BY <1>2, <2>1, <3>2
      <4>2. o(i - 1) = i
        BY <4>1
      <4> QED BY <4>1, <4>2
    <3> QED BY <2>1, <2>4, <3>1, <3>2
  <2> QED BY <1>1, <1>2, <1>3, <2>2, <2>3, <2>4
<1>7. \A i \in 1..len : i \in picked \ {m} <=> o(i) \in picked
  <2>1. m \in Nat /\ \A i \in picked : i \in Nat /\ i <= m
    BY <1>1
  <2> QED BY <1>6, <2>1
<1> HIDE DEF o
<1>8. MergedIters(iters2, values2, at, now)
  <2>1. Len(values2) = (IF at < Len(iters2) THEN at ELSE Len(iters2)) /\ ~(at < Len(iters2))
    BY <1>1, <1>3, <1>4, <1>5
  <2>2. \A i \in DOMAIN iters2 : OneCore(iters2[i]) /\ iters2[i] \subseteq now.there
    BY <1>4, <1>6 DEF MergedIters
  <2>3. Apart(iters2)
    BY <1>4, <1>6 DEF MergedIters, Apart
  <2>4. \A i \in DOMAIN values2 : values2[i] \in now.there
    BY <1>5, <1>6 DEF MergedIters
  <2>5. \A i \in DOMAIN values2 : \A d \in iters2[i] :
           d.mid = values2[i].mid /\ d.time < values2[i].time
    BY <1>4, <1>5, <1>6 DEF MergedIters
  <2>6. \A i \in DOMAIN values2, j \in DOMAIN iters2 :
           i # j => \A e \in iters2[j] : e.mid # values2[i].mid
    BY <1>4, <1>5, <1>6 DEF MergedIters
  <2>7. \A i, j \in DOMAIN values2 : i # j => values2[i].mid # values2[j].mid
    BY <1>5, <1>6 DEF MergedIters
  <2> QED BY <2>1, <2>2, <2>3, <2>4, <2>5, <2>6, <2>7 DEF MergedIters
<1>9. \A i \in DOMAIN values2 : \A k \in DOMAIN now.infos :
         /\ values2[i].time <= now.infos[k].time
         /\ i \notin picked \ {m} => values2[i].time < now.infos[k].time
  BY <1>5, <1>6, <1>7 DEF MergedShown
<1>10. ASSUME NEW i \in DOMAIN iters, NEW e, Waits(iters, values, picked, i, e)
       PROVE  \E j \in DOMAIN iters2 : Waits(iters2, values2, picked \ {m}, j, e)
  <2>1. i # m
    BY <1>10 DEF Waits
  <2>2. PICK j \in 1..len : o(j) = i
    BY <1>6, <2>1
  <2>3. Waits(iters2, values2, picked \ {m}, j, e)
    BY <1>4, <1>5, <1>6, <1>7, <1>10, <2>2 DEF Waits
  <2> QED BY <1>4, <2>3
<1>11. MergedShown(iters2, values2, picked \ {m}, now)
  BY <1>9, <1>10 DEF MergedShown
<1> QED BY <1>8, <1>11

\* When nothing is left, or the latest is there, the answer is complete.
LEMMA MergedComplete ==
    ASSUME NEW iters, NEW values, NEW at, NEW now, NEW time, Hands(iters, values, at, now),
           MergedIters(iters, values, at, now), MergedShown(iters, values, {}, now),
           at >= Len(iters), time = Unset => Len(now.infos) <= 1,
           values = <<>> \/ (time = Unset /\ now.infos # <<>>)
    PROVE  Complete(now, time)
<1>1. /\ Len(iters) \in Nat /\ Len(values) \in Nat /\ at \in Nat
      /\ DOMAIN iters = 1..Len(iters) /\ DOMAIN values = 1..Len(values)
  BY TimesAreNat DEF Hands
<1>2. CASE values = <<>>
  <2>1. DOMAIN iters = {}
    BY <1>1, <1>2 DEF MergedIters
  <2>2. \A e \in now.there : \E k \in DOMAIN now.infos : now.infos[k].time = e.time
    BY <2>1 DEF MergedShown
  <2>3. DOMAIN <<>> = {}
    OBVIOUS
  <2> QED BY <2>2, <2>3 DEF Complete
<1>3. CASE time = Unset /\ now.infos # <<>>
  BY <1>3 DEF Complete
<1> QED BY <1>2, <1>3

-----------------------------------------------------------------------------
(* The iterators are opened.                                               *)

\* A key has one record.
Unique == \A r, s \in db : r.cf = s.cf /\ r.key = s.key => r = s

\* A step leaves one record to a key.
LEMMA UniqueStep ==
    ASSUME Unique, [Next]_vars
    PROVE  Unique'
<1>1. CASE \E e \in Events : Ingest(e)
  <2> PICK e \in Events : Ingest(e)
    BY <1>1
  <2>1. RecordOf(e).cf = Family(e.kind) /\ RecordOf(e).key = IngestKey(e)
    BY RecordFacts
  <2>2. db' = {r \in db : r.cf # Family(e.kind) \/ r.key # IngestKey(e)} \cup {RecordOf(e)}
    BY Appended
  <2>3. \A r, s \in db' : r.cf = s.cf /\ r.key = s.key => r = s
    BY <2>1, <2>2 DEF Unique
  <2> QED BY <2>3 DEF Unique
<1>2. CASE db' \subseteq db
  BY <1>2 DEF Unique
<1>3. RetainTick \/ (\E source \in Sources : RetainSource(source)) \/ RetainDone => db' \subseteq db
  BY DEF RetainTick, RetainSource, RetainDone
<1> QED BY <1>1, <1>2, <1>3, StoreSteps

\* The ranges that statistics are asked for end after 1970 has begun: an end
\* of 0 stands for no end in the keys.
EndsGiven == \A time \in StatsTimes : time # Unset => time[2] # 0

\* The bounds of a range that is asked for.
LEMMA BoundsFacts ==
    ASSUME NEW time \in StatsTimes
    PROVE  /\ Bounds(time)[1] \in Nat /\ Bounds(time)[2] \in Nat
           /\ EndsGiven => Bounds(time)[2] \in Nat \ {0}
<1>1. CASE time = Unset
  BY <1>1, TimesAssumption DEF Bounds
<1>2. CASE time # Unset
  <2>1. time \in Nat \X Nat
    BY <1>2, StatsAssumption
  <2> QED BY <1>2, <2>1 DEF Bounds, EndsGiven
<1> QED BY <1>1, <1>2

\* An iterator gives events.
LEMMA IterEvents ==
    ASSUME Stored, NEW source, NEW core, NEW time
    PROVE  /\ StatisticsIter(source, core, time) \in SUBSET Events
           /\ StatisticsOf(source, core, time) \in SUBSET Events
<1>1. \A r \in db : r.event \in Events
  BY DEF Stored
<1> QED BY <1>1 DEF StatisticsIter, StatisticsOf, Scan

\* An iterator gives what is meant: the statistics of one core, one of a
\* timestamp.
LEMMA IterIsMeant ==
    ASSUME Stored, Unique, EndsGiven, NEW source \in Sources, NEW core \in Nat,
           NEW time \in StatsTimes
    PROVE  /\ StatisticsIter(source, core, time) = StatisticsOf(source, core, time)
           /\ OneCore(StatisticsOf(source, core, time))
           /\ \A e \in StatisticsOf(source, core, time) : e.mid = core
<1>1. PICK from \in Nat, to \in Nat \ {0} : from = Bounds(time)[1] /\ to = Bounds(time)[2]
  BY BoundsFacts
<1>2. StatisticsIter(source, core, time) = Scan(Store["Statistics"], <<source, core>>, from, to)
  BY <1>1 DEF StatisticsIter, Store
<1>3. \A e : e \in StatisticsOf(source, core, time) <=>
         /\ e \in Archived /\ e.kind = "Statistics" /\ e.source = source /\ e.mid = core
         /\ from <= e.time /\ e.time < to
  BY <1>1 DEF StatisticsOf, Archived
<1>4. \A e : e \in StatisticsIter(source, core, time) <=> e \in StatisticsOf(source, core, time)
  BY <1>2, <1>3, CoreScanned
<1>5. ASSUME NEW d \in StatisticsOf(source, core, time), NEW e \in StatisticsOf(source, core, time),
             d.time = e.time
      PROVE  d = e
  <2>1. /\ d.kind = "Statistics" /\ e.kind = "Statistics" /\ d.source = e.source /\ d.mid = e.mid
        /\ d \in Archived /\ e \in Archived
    BY <1>3
  <2>2. PICK r \in db, s \in db : r.event = d /\ s.event = e
    BY <2>1 DEF Archived
  <2>3. /\ d \in Events /\ e \in Events /\ r = RecordOf(d) /\ s = RecordOf(e)
    BY <2>2 DEF Stored
  <2>4. IngestKey(d) = <<d.source, d.mid, d.time>> /\ IngestKey(e) = <<e.source, e.mid, e.time>>
    BY <2>1, <2>3, KeyForms DEF ThreeParts
  <2>5. r.cf = s.cf /\ r.key = s.key
    BY <1>5, <2>1, <2>3, <2>4, RecordFacts
  <2>6. r = s
    BY <2>5 DEF Unique
  <2> QED BY <2>2, <2>6
<1>6. StatisticsIter(source, core, time) = StatisticsOf(source, core, time)
  BY <1>4 DEF StatisticsIter, StatisticsOf, Scan
<1>7. OneCore(StatisticsOf(source, core, time))
  BY <1>3, <1>5 DEF OneCore
<1> QED BY <1>3, <1>6, <1>7

\* The iterator of the next core joins the others.
LEMMA OpenedNext ==
    ASSUME NEW iters \in Seq(SUBSET Events), NEW at \in Nat, NEW now \in Reports,
           Opened(iters, at, now), NEW iter \in SUBSET Events, OneCore(iter),
           \A e \in iter : e.mid = at, NEW iters2, NEW now2,
           iters2 = IF iter = {} THEN iters ELSE Append(iters, iter),
           now2.there = now.there \cup iter, now2.infos = now.infos
    PROVE  Opened(iters2, at + 1, now2)
<1>1. Len(iters) \in Nat /\ DOMAIN iters = 1..Len(iters)
  OBVIOUS
<1>2. \A e \in now2.there : e.mid \in Nat /\ e.mid < at + 1
  BY DEF Opened
<1>3. CASE iter = {}
  BY <1>2, <1>3 DEF Opened
<1>4. CASE iter # {}
  <2> DEFINE n == Len(iters) + 1
  <2>1. /\ DOMAIN iters2 = 1..n /\ iters2[n] = iter
        /\ \A i \in DOMAIN iters : i \in 1..n /\ i # n /\ iters2[i] = iters[i]
        /\ \A i \in 1..n : i = n \/ i \in DOMAIN iters
        /\ n \in 1..n
    <3>1. iters2 = Append(iters, iter)
      BY <1>4
    <3>2. /\ DOMAIN iters2 = 1..(Len(iters) + 1) /\ iters2[Len(iters) + 1] = iter
          /\ \A i \in 1..Len(iters) : iters2[i] = iters[i]
      BY <3>1, AppendFacts
    <3> QED BY <1>1, <3>2
  <2> HIDE DEF n
  <2>2. \A i \in DOMAIN iters : \A d \in iters[i] : d.mid # at
    BY DEF Opened
  <2>3. \A i \in DOMAIN iters2 : OneCore(iters2[i]) /\ iters2[i] # {} /\ iters2[i] \subseteq now2.there
    BY <1>4, <2>1 DEF Opened
  <2>4. Apart(iters2)
    BY <2>1, <2>2 DEF Opened, Apart
  <2>5. \A e \in now2.there : \E i \in DOMAIN iters2 : e \in iters2[i]
    BY <2>1 DEF Opened
  <2> QED BY <1>2, <2>3, <2>4, <2>5 DEF Opened
<1> QED BY <1>3, <1>4

-----------------------------------------------------------------------------
(* The steps of a request for statistics.                                  *)

Typed(s) == s \in StatsRecords /\ Paired(s)

\* The parts of a request.
LEMMA StatsParts ==
    ASSUME NEW s \in StatsRecords
    PROVE  /\ s.todo \in Seq(Sources) /\ s.time \in StatsTimes /\ s.at \in Nat
           /\ s.step \in {"next", "open", "merge"} /\ s.iters \in Seq(SUBSET Events)
           /\ s.values \in Seq(Events) /\ s.picked \in SUBSET Nat
           /\ s.now \in Reports \cup {Idle} /\ s.answer \in Seq(Reports)
BY DEF StatsRecords

\* The request comes in.
LEMMA AskStep ==
    ASSUME StatsAsk
    PROVE  /\ stats' \in StatsRecords /\ stats'.step = "next" /\ stats'.iters = <<>>
           /\ stats'.values = <<>> /\ stats'.picked = {} /\ stats'.answer = <<>>
<1>1. PICK sources \in StatsAsked, time \in StatsTimes :
         stats' = [todo |-> sources, time |-> time, step |-> "next", at |-> 0,
                   iters |-> <<>>, values |-> <<>>, picked |-> {}, now |-> Idle,
                   answer |-> <<>>]
  BY DEF StatsAsk
<1>2. sources \in Seq(Sources)
  BY StatsAssumption
<1> QED BY <1>1, <1>2 DEF StatsRecords

\* The next source's turn begins.
LEMMA SourceStep ==
    ASSUME stats \in StatsRecords, StatsSource
    PROVE  /\ stats' \in StatsRecords /\ stats'.step = "open" /\ stats'.at = 0
           /\ stats'.time = stats.time /\ stats'.iters = stats.iters
           /\ stats'.values = stats.values /\ stats'.picked = stats.picked
           /\ stats'.answer = stats.answer /\ stats'.now \in Reports
           /\ stats'.now.there = {} /\ stats'.now.infos = <<>>
<1> DEFINE report == [source |-> Head(stats.todo), there |-> {}, infos |-> <<>>]
<1>1. stats.todo \in Seq(Sources) /\ stats.todo # <<>>
  BY StatsParts DEF StatsSource
<1>2. Tail(stats.todo) \in Seq(Sources) /\ Head(stats.todo) \in Sources
  BY <1>1
<1>3. report \in Reports /\ report.there = {} /\ report.infos = <<>>
  BY <1>2 DEF Reports
<1>4. stats' = [stats EXCEPT !.todo = Tail(stats.todo), !.step = "open", !.at = 0, !.now = report]
  BY DEF StatsSource
<1> HIDE DEF report
<1> QED BY <1>2, <1>3, <1>4 DEF StatsRecords

\* The next core is opened.
LEMMA OpenStep ==
    ASSUME Stored, stats \in StatsRecords, Paired(stats), StatsOpen, NEW iter, NEW of,
           iter = StatisticsIter(stats.now.source, stats.at, stats.time),
           of = StatisticsOf(stats.now.source, stats.at, stats.time)
    PROVE  /\ stats' \in StatsRecords /\ stats'.now \in Reports
           /\ stats'.time = stats.time /\ stats'.values = stats.values
           /\ stats'.picked = stats.picked /\ stats'.answer = stats.answer
           /\ stats'.now.there = stats.now.there \cup of /\ stats'.now.infos = stats.now.infos
           /\ stats'.iters = (IF iter = {} THEN stats.iters ELSE Append(stats.iters, iter))
           /\ \/ stats'.step = "open" /\ stats'.at = stats.at + 1 /\ stats'.at < MAX_CORE_SIZE
              \/ stats'.step = "merge" /\ stats'.at = 0
<1> DEFINE last == stats.at + 1 = MAX_CORE_SIZE
           iters2 == IF iter = {} THEN stats.iters ELSE Append(stats.iters, iter)
           now2 == [stats.now EXCEPT !.there = stats.now.there \cup of]
           step2 == IF last THEN "merge" ELSE "open"
           at2 == IF last THEN 0 ELSE stats.at + 1
<1>1. /\ stats.now \in Reports /\ stats.at \in Nat /\ stats.at < MAX_CORE_SIZE
      /\ stats.iters \in Seq(SUBSET Events)
  BY StatsParts DEF StatsOpen, Paired
<1>2. iter \in SUBSET Events /\ of \in SUBSET Events
  BY IterEvents
<1>3. iters2 \in Seq(SUBSET Events)
  BY <1>1, <1>2
<1>4. /\ now2 \in Reports /\ now2.there = stats.now.there \cup of
      /\ now2.infos = stats.now.infos
  BY <1>1, <1>2 DEF Reports
<1>5. /\ step2 \in {"open", "merge"} /\ at2 \in Nat
      /\ \/ step2 = "open" /\ at2 = stats.at + 1 /\ at2 < MAX_CORE_SIZE
         \/ step2 = "merge" /\ at2 = 0
  BY <1>1, CoresAssumption
<1>6. stats' = [stats EXCEPT !.step = step2, !.at = at2, !.iters = iters2, !.now = now2]
  BY DEF StatsOpen, StatsRecords
<1>7. iters2 = IF iter = {} THEN stats.iters ELSE Append(stats.iters, iter)
  OBVIOUS
<1> HIDE DEF iters2, now2, step2, at2, last
<1> QED BY <1>3, <1>4, <1>5, <1>6, <1>7 DEF StatsRecords

\* An iterator is asked for its first value.
LEMMA FirstStep ==
    ASSUME stats \in StatsRecords, Paired(stats), StatsFirst, NEW i, i = stats.at + 1,
           NEW iter, iter = stats.iters[i]
    PROVE  /\ stats' \in StatsRecords /\ stats'.step = "merge" /\ stats'.at = i
           /\ i \in 1..Len(stats.iters) /\ iter \in SUBSET Events
           /\ stats'.time = stats.time /\ stats'.now = stats.now
           /\ stats'.picked = stats.picked /\ stats'.answer = stats.answer
           /\ stats'.iters = [stats.iters EXCEPT ![i] = IF iter = {} THEN {} ELSE Older(iter)]
           /\ stats'.values = (IF iter = {} THEN stats.values ELSE Append(stats.values, Newest(iter)))
<1> DEFINE old == IF iter = {} THEN {} ELSE Older(iter)
           iters2 == [stats.iters EXCEPT ![i] = old]
           values2 == IF iter = {} THEN stats.values ELSE Append(stats.values, Newest(iter))
<1>1. /\ stats.at \in Nat /\ stats.at < Len(stats.iters) /\ stats.step = "merge"
      /\ stats.iters \in Seq(SUBSET Events) /\ stats.values \in Seq(Events)
  BY StatsParts DEF StatsFirst
<1>2. i \in 1..Len(stats.iters) /\ i \in Nat
  BY <1>1
<1>3. iter \in SUBSET Events
  BY <1>1, <1>2
<1>4. old \in SUBSET Events /\ (iter # {} => Newest(iter) \in Events)
  BY <1>3, NewestFacts DEF Older
<1>5. values2 \in Seq(Events)
  BY <1>1, <1>4
<1>6. iters2 \in Seq(SUBSET Events)
  <2> HIDE DEF old
  <2> QED BY <1>1, <1>2, <1>4, ReplacedFacts
<1>7. stats' = [stats EXCEPT !.at = i, !.iters = iters2, !.values = values2]
  BY DEF StatsFirst, StatsRecords
<1>8. /\ iters2 = [stats.iters EXCEPT ![i] = IF iter = {} THEN {} ELSE Older(iter)]
      /\ values2 = IF iter = {} THEN stats.values ELSE Append(stats.values, Newest(iter))
  OBVIOUS
<1> HIDE DEF iters2, values2, old
<1> QED BY <1>1, <1>2, <1>3, <1>5, <1>6, <1>7, <1>8 DEF StatsRecords

\* A round of gen_statistics.
LEMMA SumStep ==
    ASSUME stats \in StatsRecords, Paired(stats), StatsRound, NEW newest, NEW picked, NEW info,
           newest = NewestTime(stats.values), picked = Picked(stats.values, newest),
           info = InfoOf(stats.values, newest, picked)
    PROVE  /\ stats' \in StatsRecords /\ stats'.step = "merge" /\ stats'.at = stats.at
           /\ stats'.time = stats.time /\ stats'.iters = stats.iters
           /\ stats'.values = stats.values /\ stats'.answer = stats.answer
           /\ stats'.picked = picked /\ picked \subseteq 1..Len(stats.values)
           /\ stats'.now = WithInfo(stats.now, info) /\ stats'.now \in Reports
           /\ stats.values # <<>> /\ (stats.time = Unset => stats.now.infos = <<>>)
<1> DEFINE T == {stats.values[i].time : i \in DOMAIN stats.values}
           now2 == [stats.now EXCEPT !.infos = Append(stats.now.infos, info)]
<1>1. /\ stats.step = "merge" /\ stats.now \in Reports /\ stats.values \in Seq(Events)
      /\ stats.values # <<>> /\ (stats.time = Unset => stats.now.infos = <<>>)
  BY StatsParts DEF StatsRound, Merging, Enough, Paired
<1>2. \A i \in DOMAIN stats.values : stats.values[i] \in Events
  BY <1>1
<1>3. \A i \in DOMAIN stats.values : stats.values[i].time \in Times
  BY <1>2, EventFacts
<1>4. T \in SUBSET Times /\ T # {}
  <2>1. 1 \in DOMAIN stats.values
    BY <1>1
  <2> QED BY <1>3, <2>1
<1>5. newest \in Nat
  <2>1. newest = Max(T)
    BY DEF NewestTime
  <2> HIDE DEF T
  <2> QED BY <1>4, <2>1, NewestIsNat
<1> HIDE DEF T
<1>6. picked \subseteq 1..Len(stats.values) /\ picked \subseteq DOMAIN stats.values
  BY <1>1 DEF Picked
<1>7. DOMAIN stats.values \subseteq Nat /\ picked \in SUBSET Nat
  BY <1>1, <1>6
<1>8. info \in Infos
  BY <1>2, <1>5, <1>6, <1>7 DEF Infos, InfoOf
<1>9. now2 \in Reports
  <2>1. stats.now.infos \in Seq(Infos)
    BY <1>1 DEF Reports
  <2>2. Append(stats.now.infos, info) \in Seq(Infos)
    BY <1>8, <2>1, AppendFacts
  <2> QED BY <1>1, <2>2 DEF Reports
<1>10. stats' = [stats EXCEPT !.picked = picked, !.now = now2]
  BY DEF StatsRound, StatsRecords, NewestTime, InfoOf
<1>11. now2 = WithInfo(stats.now, info)
  BY DEF WithInfo
<1> HIDE DEF now2
<1> QED BY <1>1, <1>6, <1>7, <1>9, <1>10, <1>11 DEF StatsRecords

\* What gen_statistics returns is pushed.
LEMMA PushStep ==
    ASSUME stats \in StatsRecords, Paired(stats), StatsPush
    PROVE  /\ stats' \in StatsRecords /\ stats'.step = "next" /\ stats'.values = <<>>
           /\ stats'.time = stats.time /\ stats'.iters = stats.iters
           /\ stats'.picked = {} /\ stats.picked = {} /\ stats.step = "merge"
           /\ stats.at >= Len(stats.iters) /\ stats.now \in Reports
           /\ stats'.answer = Append(stats.answer, stats.now)
           /\ stats.values = <<>> \/ (stats.time = Unset /\ stats.now.infos # <<>>)
<1>1. /\ stats.step = "merge" /\ stats.now \in Reports /\ stats.answer \in Seq(Reports)
      /\ stats.picked = {} /\ stats.at >= Len(stats.iters)
      /\ stats.values = <<>> \/ (stats.time = Unset /\ stats.now.infos # <<>>)
  BY StatsParts DEF StatsPush, Merging, Enough, Paired
<1>2. Append(stats.answer, stats.now) \in Seq(Reports)
  BY <1>1
<1>3. stats' = [stats EXCEPT !.step = "next", !.at = 0, !.values = <<>>, !.now = Idle,
                             !.answer = Append(stats.answer, stats.now)]
  BY DEF StatsPush
<1>4. PICK answer2 \in Seq(Reports) : answer2 = Append(stats.answer, stats.now)
  BY <1>2
<1>5. stats' = [stats EXCEPT !.step = "next", !.at = 0, !.values = <<>>, !.now = Idle,
                             !.answer = answer2]
  BY <1>3, <1>4
<1>6. <<>> \in Seq(Events)
  OBVIOUS
<1>7. /\ stats' \in StatsRecords /\ stats'.step = "next" /\ stats'.values = <<>>
      /\ stats'.time = stats.time /\ stats'.iters = stats.iters
      /\ stats'.picked = stats.picked /\ stats'.answer = answer2
  BY <1>5, <1>6 DEF StatsRecords
<1> QED BY <1>1, <1>4, <1>7

\* A picked index is moved on.
LEMMA AdvanceStep ==
    ASSUME stats \in StatsRecords, Paired(stats), StatsAdvance, NEW m, m = Max(stats.picked)
    PROVE  /\ stats' \in StatsRecords /\ stats'.step = "merge" /\ stats'.at = stats.at
           /\ stats.step = "merge" /\ stats.at >= Len(stats.iters)
           /\ stats'.time = stats.time /\ stats'.now = stats.now /\ stats'.answer = stats.answer
           /\ stats'.picked = stats.picked \ {m}
           /\ m \in stats.picked /\ \A i \in stats.picked : i <= m
           /\ m \in 1..Len(stats.values) /\ m \in 1..Len(stats.iters)
           /\ \/ /\ stats.iters[m] # {}
                 /\ stats'.iters = [stats.iters EXCEPT ![m] = Older(stats.iters[m])]
                 /\ stats'.values = [stats.values EXCEPT ![m] = Newest(stats.iters[m])]
              \/ /\ stats.iters[m] = {}
                 /\ stats'.iters = RemoveAt(stats.iters, m)
                 /\ stats'.values = RemoveAt(stats.values, m)
<1>1. /\ stats.iters \in Seq(SUBSET Events) /\ stats.values \in Seq(Events)
      /\ stats.picked \in SUBSET Nat /\ stats.picked # {} /\ stats.at \in Nat
  BY StatsParts DEF StatsAdvance
<1>2. /\ stats.step = "merge" /\ ~(stats.at < Len(stats.iters))
      /\ stats.picked \subseteq 1..Len(stats.values) /\ Len(stats.values) <= Len(stats.iters)
  BY <1>1 DEF Paired
<1>3. /\ Len(stats.values) \in Nat /\ Len(stats.iters) \in Nat
      /\ DOMAIN stats.iters = 1..Len(stats.iters)
  BY <1>1
<1>4. m \in stats.picked /\ \A i \in stats.picked : i <= m
  <2>1. stats.picked \in SUBSET (0..Len(stats.values))
    BY <1>2, <1>3
  <2> QED BY <1>1, <1>3, <2>1, MaxFacts
<1>5. m \in 1..Len(stats.values) /\ m \in 1..Len(stats.iters) /\ stats.at >= Len(stats.iters)
  BY <1>1, <1>2, <1>3, <1>4
<1>6. PICK it \in SUBSET Events : it = stats.iters[m]
  BY <1>1, <1>5
<1> DEFINE rest == [stats EXCEPT !.picked = stats.picked \ {m}]
<1>7. rest \in StatsRecords /\ rest.iters = stats.iters /\ rest.values = stats.values
  BY <1>1 DEF StatsRecords
<1>8. CASE it # {}
  <2> DEFINE iters2 == [stats.iters EXCEPT ![m] = Older(it)]
             values2 == [stats.values EXCEPT ![m] = Newest(it)]
  <2>1. Older(it) \in SUBSET Events /\ Newest(it) \in Events
    BY <1>8, NewestFacts DEF Older
  <2>2. iters2 \in Seq(SUBSET Events) /\ values2 \in Seq(Events)
    BY <1>1, <1>5, <2>1, ReplacedFacts
  <2>3. stats' = [rest EXCEPT !.iters[m] = Older(@), !.values[m] = Newest(stats.iters[m])]
    BY <1>3, <1>5, <1>6, <1>8 DEF StatsAdvance, NextIndex
  <2>4. stats' = [rest EXCEPT !.iters = iters2, !.values = values2]
    BY <1>6, <1>7, <2>3 DEF StatsRecords
  <2>5. stats' = [stats EXCEPT !.picked = stats.picked \ {m}, !.iters = iters2, !.values = values2]
    BY <1>7, <2>4 DEF StatsRecords
  <2>6. /\ iters2 = [stats.iters EXCEPT ![m] = Older(stats.iters[m])]
        /\ values2 = [stats.values EXCEPT ![m] = Newest(stats.iters[m])]
    BY <1>6
  <2> HIDE DEF iters2, values2, rest
  <2> QED BY <1>1, <1>2, <1>4, <1>5, <1>6, <1>8, <2>2, <2>5, <2>6 DEF StatsRecords
<1>9. CASE it = {}
  <2> DEFINE iters2 == RemoveAt(stats.iters, m)  values2 == RemoveAt(stats.values, m)
  <2>1. iters2 \in Seq(SUBSET Events) /\ values2 \in Seq(Events)
    BY <1>1, <1>5, RemoveAtFacts
  <2>2. stats' = [rest EXCEPT !.iters = RemoveAt(@, m), !.values = RemoveAt(@, m)]
    BY <1>3, <1>5, <1>6, <1>9 DEF StatsAdvance, NextIndex
  <2>3. stats' = [rest EXCEPT !.iters = iters2, !.values = values2]
    BY <1>7, <2>2 DEF StatsRecords
  <2> HIDE DEF iters2, values2
  <2>4. stats' = [stats EXCEPT !.picked = stats.picked \ {m}, !.iters = iters2, !.values = values2]
    BY <1>7, <2>3 DEF StatsRecords
  <2> HIDE DEF rest
  <2>5. /\ stats' \in StatsRecords /\ stats'.step = "merge" /\ stats'.at = stats.at
        /\ stats'.time = stats.time /\ stats'.now = stats.now /\ stats'.answer = stats.answer
        /\ stats'.picked = stats.picked \ {m} /\ stats'.iters = iters2 /\ stats'.values = values2
    BY <1>1, <1>2, <2>1, <2>4 DEF StatsRecords
  <2> QED BY <1>2, <1>4, <1>5, <1>6, <1>9, <2>5 DEF iters2, values2
<1> QED BY <1>8, <1>9

\* No other step touches the statistics.
LEMMA StatsSteps ==
    [Next]_vars => StatsStep \/ UNCHANGED stats
<1>1. \A q : PagedQuery(q) \/ SearchQuery(q) \/ Export(q) \/ RangeRequest(q) \/ RawRequest(q)
              \/ HogStream(q) \/ CrusherStream(q) => UNCHANGED stats
  BY DEF PagedQuery, SearchQuery, Export, RangeRequest, RawRequest, HogStream, CrusherStream,
         Serves
<1>2. ASSUME NEW e, Ingest(e) PROVE UNCHANGED stats
  BY <1>2 DEF Ingest
<1>3. ASSUME NEW source, RetainSource(source) PROVE UNCHANGED stats
  BY <1>3 DEF RetainSource
<1>4. RetainTick \/ RetainDone \/ Leave \/ UNCHANGED vars => UNCHANGED stats
  BY DEF RetainTick, RetainDone, Leave, vars
<1> QED BY <1>1, <1>2, <1>3, <1>4 DEF Next, StatsStep

StatsTyped == stats # Idle => Typed(stats)

\* A step leaves values and iterators in pairs.
LEMMA TypedStep ==
    ASSUME Stored, StatsTyped, [Next]_vars
    PROVE  StatsTyped'
<1>0. StatsTyped' <=> (stats' # Idle => Typed(stats'))
  BY DEF StatsTyped
<1>1. CASE StatsAsk
  <2>1. /\ stats' \in StatsRecords /\ stats'.step = "next" /\ stats'.iters = <<>>
        /\ stats'.values = <<>> /\ stats'.picked = {}
    BY <1>1, AskStep
  <2>2. Paired(stats')
    BY <2>1 DEF Paired
  <2> QED BY <1>0, <2>1, <2>2 DEF Typed
<1>2. CASE StatsSource
  <2>1. stats \in StatsRecords /\ Paired(stats) /\ stats.step = "next"
    BY <1>2 DEF StatsTyped, Typed, StatsSource
  <2>2. /\ stats' \in StatsRecords /\ stats'.step = "open" /\ stats'.at = 0
        /\ stats'.iters = stats.iters /\ stats'.values = stats.values
        /\ stats'.picked = stats.picked /\ stats'.now \in Reports
    BY <1>2, <2>1, SourceStep
  <2>3. Paired(stats')
    BY <2>1, <2>2, CoresAssumption DEF Paired
  <2> QED BY <1>0, <2>2, <2>3 DEF Typed
<1>3. CASE StatsOpen
  <2>1. stats \in StatsRecords /\ Paired(stats) /\ stats.step = "open"
    BY <1>3 DEF StatsTyped, Typed, StatsOpen
  <2>2. PICK iter, of : iter = StatisticsIter(stats.now.source, stats.at, stats.time)
                        /\ of = StatisticsOf(stats.now.source, stats.at, stats.time)
    OBVIOUS
  <2>3. /\ stats' \in StatsRecords /\ stats'.now \in Reports
        /\ stats'.values = stats.values /\ stats'.picked = stats.picked
        /\ \/ stats'.step = "open" /\ stats'.at < MAX_CORE_SIZE
           \/ stats'.step = "merge" /\ stats'.at = 0
    BY <1>3, <2>1, <2>2, OpenStep
  <2>4. stats.values = <<>> /\ stats.picked = {}
    BY <2>1 DEF Paired
  <2>5. stats'.iters \in Seq(SUBSET Events) /\ Len(<<>>) = 0
    BY <2>3 DEF StatsRecords
  <2>6. Len(stats'.iters) \in Nat
    BY <2>5
  <2>7. Paired(stats')
    BY <2>3, <2>4, <2>5, <2>6 DEF Paired
  <2> QED BY <1>0, <2>3, <2>7 DEF Typed
<1>4. CASE StatsFirst
  <2>1. /\ stats \in StatsRecords /\ Paired(stats) /\ stats.step = "merge"
        /\ stats.at < Len(stats.iters)
    BY <1>4 DEF StatsTyped, Typed, StatsFirst
  <2>2. PICK i, iter : i = stats.at + 1 /\ iter = stats.iters[i]
    OBVIOUS
  <2>3. /\ stats' \in StatsRecords /\ stats'.step = "merge" /\ stats'.at = i
        /\ i \in 1..Len(stats.iters) /\ iter \in SUBSET Events
        /\ stats'.now = stats.now /\ stats'.picked = stats.picked
        /\ stats'.iters = [stats.iters EXCEPT ![i] = IF iter = {} THEN {} ELSE Older(iter)]
        /\ stats'.values = (IF iter = {} THEN stats.values ELSE Append(stats.values, Newest(iter)))
    BY <1>4, <2>1, <2>2, FirstStep
  <2>4. /\ Len(stats.values) <= stats.at /\ stats.picked = {} /\ stats.now \in Reports
    BY <2>1 DEF Paired
  <2>5. /\ stats.iters \in Seq(SUBSET Events) /\ stats.values \in Seq(Events)
        /\ stats.at \in Nat
    BY <2>1, StatsParts
  <2>6. Len(stats'.iters) = Len(stats.iters)
    BY <2>3, <2>5
  <2>7. Len(stats'.values) \in Nat /\ Len(stats'.values) <= Len(stats.values) + 1
    <3>1. CASE iter = {}
      BY <2>3, <2>5, <3>1
    <3>2. CASE iter # {}
      <4>1. Newest(iter) \in Events
        BY <2>3, <3>2, NewestFacts
      <4> QED BY <2>3, <2>5, <3>2, <4>1, AppendFacts
    <3> QED BY <3>1, <3>2
  <2>8. Len(stats.values) \in Nat /\ Len(stats.iters) \in Nat
    BY <2>5
  <2>9. Len(stats'.values) <= stats'.at /\ Len(stats'.values) <= Len(stats'.iters)
    BY <2>1, <2>2, <2>3, <2>4, <2>5, <2>6, <2>7, <2>8
  <2>10. Paired(stats')
    BY <2>3, <2>4, <2>9 DEF Paired
  <2> QED BY <1>0, <2>3, <2>10 DEF Typed
<1>5. CASE StatsRound
  <2>1. /\ stats \in StatsRecords /\ Paired(stats) /\ stats.step = "merge"
        /\ stats.at >= Len(stats.iters)
    BY <1>5 DEF StatsTyped, Typed, StatsRound, Merging
  <2>2. PICK newest : newest = NewestTime(stats.values)
    OBVIOUS
  <2>3. PICK picked : picked = Picked(stats.values, newest)
    OBVIOUS
  <2>4. PICK info : info = InfoOf(stats.values, newest, picked)
    OBVIOUS
  <2>5. /\ stats' \in StatsRecords /\ stats'.step = "merge" /\ stats'.at = stats.at
        /\ stats'.iters = stats.iters /\ stats'.values = stats.values
        /\ stats'.picked = picked /\ picked \subseteq 1..Len(stats.values)
        /\ stats'.now \in Reports
    BY <1>5, <2>1, <2>2, <2>3, <2>4, SumStep
  <2>6. stats.at \in Nat /\ Len(stats.iters) \in Nat
    <3>1. stats.iters \in Seq(SUBSET Events) /\ stats.at \in Nat
      BY <2>1, StatsParts
    <3> QED BY <3>1
  <2>7. ~(stats'.at < Len(stats'.iters))
    BY <2>1, <2>5, <2>6
  <2>8. Paired(stats')
    BY <2>1, <2>5, <2>7 DEF Paired
  <2> QED BY <1>0, <2>5, <2>8 DEF Typed
<1>6. CASE StatsAdvance
  <2>1. stats \in StatsRecords /\ Paired(stats)
    BY <1>6 DEF StatsTyped, Typed, StatsAdvance
  <2>2. PICK m : m = Max(stats.picked)
    OBVIOUS
  <2>3. /\ stats' \in StatsRecords /\ stats'.step = "merge" /\ stats'.at = stats.at
        /\ stats.step = "merge" /\ stats.at >= Len(stats.iters)
        /\ stats'.now = stats.now /\ stats'.picked = stats.picked \ {m}
        /\ m \in stats.picked /\ \A i \in stats.picked : i <= m
        /\ m \in 1..Len(stats.values) /\ m \in 1..Len(stats.iters)
    BY <1>6, <2>1, <2>2, AdvanceStep
  <2>4. /\ stats.iters \in Seq(SUBSET Events) /\ stats.values \in Seq(Events)
        /\ stats.at \in Nat
    BY <2>1, StatsParts
  <2>5. /\ Len(stats.values) <= Len(stats.iters) /\ stats.now \in Reports
        /\ stats.picked \subseteq 1..Len(stats.values)
    BY <2>1, <2>3 DEF Paired
  <2>6. \/ /\ stats'.iters = [stats.iters EXCEPT ![m] = Older(stats.iters[m])]
           /\ stats'.values = [stats.values EXCEPT ![m] = Newest(stats.iters[m])]
        \/ /\ stats'.iters = RemoveAt(stats.iters, m)
           /\ stats'.values = RemoveAt(stats.values, m)
    BY <1>6, <2>1, <2>2, AdvanceStep
  <2>7. CASE /\ stats'.iters = [stats.iters EXCEPT ![m] = Older(stats.iters[m])]
             /\ stats'.values = [stats.values EXCEPT ![m] = Newest(stats.iters[m])]
    <3>1. Len(stats'.iters) = Len(stats.iters) /\ Len(stats'.values) = Len(stats.values)
      BY <2>4, <2>7
    <3>2. Len(stats.iters) \in Nat
      BY <2>4
    <3>3. Paired(stats')
      BY <2>3, <2>4, <2>5, <3>1, <3>2 DEF Paired
    <3> QED BY <1>0, <2>3, <3>3 DEF Typed
  <2>8. CASE /\ stats'.iters = RemoveAt(stats.iters, m)
             /\ stats'.values = RemoveAt(stats.values, m)
    <3>1. Len(stats'.iters) = Len(stats.iters) - 1 /\ Len(stats'.values) = Len(stats.values) - 1
      BY <2>3, <2>4, <2>8, RemoveAtFacts
    <3>2. Len(stats.iters) \in Nat /\ Len(stats.values) \in Nat
      BY <2>4
    <3>3. stats'.picked \subseteq 1..Len(stats'.values)
      BY <2>3, <2>5, <3>1, <3>2
    <3>4. Len(stats'.values) <= Len(stats'.iters) /\ ~(stats'.at < Len(stats'.iters))
      BY <2>3, <2>4, <2>5, <3>1, <3>2
    <3>5. Paired(stats')
      BY <2>3, <2>5, <3>3, <3>4 DEF Paired
    <3> QED BY <1>0, <2>3, <3>5 DEF Typed
  <2> QED BY <2>6, <2>7, <2>8
<1>7. CASE StatsPush
  <2>1. stats \in StatsRecords /\ Paired(stats)
    BY <1>7 DEF StatsTyped, Typed, StatsPush, Merging
  <2>2. /\ stats' \in StatsRecords /\ stats'.step = "next" /\ stats'.values = <<>>
        /\ stats'.iters = stats.iters /\ stats'.picked = {}
    BY <1>7, <2>1, PushStep
  <2>3. stats.iters \in Seq(SUBSET Events) /\ Len(<<>>) = 0
    BY <2>1, StatsParts
  <2>4. Len(stats.iters) \in Nat
    BY <2>3
  <2>5. Paired(stats')
    BY <2>2, <2>3, <2>4 DEF Paired
  <2> QED BY <1>0, <2>2, <2>5 DEF Typed
<1>8. CASE StatsDone
  BY <1>0, <1>8 DEF StatsDone
<1>9. CASE UNCHANGED stats
  BY <1>9 DEF StatsTyped
<1> QED BY <1>1, <1>2, <1>3, <1>4, <1>5, <1>6, <1>7, <1>8, <1>9, StatsSteps DEF StatsStep

\* The types hold.
LEMMA StatsTypedInvariant == Spec => []StatsTyped
<1>1. Init => StatsTyped
  BY DEF Init, StatsTyped
<1>2. Stored /\ StatsTyped /\ [Next]_vars => StatsTyped'
  BY TypedStep
<1> QED BY <1>1, <1>2, StoreInvariant, PTL DEF Spec

\* Neither the unwrap nor the remove of gen_statistics panics, whatever the
\* sources, the events, the number of cores and the iterators that an earlier
\* source left behind.
THEOREM NoStatisticsPanic == Spec => []ValueExists
<1>1. ASSUME StatsTyped, stats # Idle
      PROVE  stats.picked \subseteq DOMAIN stats.values \cap DOMAIN stats.iters
  <2>1. /\ stats.iters \in Seq(SUBSET Events) /\ stats.values \in Seq(Events)
        /\ stats.picked \subseteq 1..Len(stats.values) /\ Len(stats.values) <= Len(stats.iters)
    BY <1>1, StatsParts DEF StatsTyped, Typed, Paired
  <2>2. DOMAIN stats.values = 1..Len(stats.values) /\ DOMAIN stats.iters = 1..Len(stats.iters)
    BY <2>1
  <2>3. Len(stats.values) \in Nat /\ Len(stats.iters) \in Nat
    BY <2>1
  <2> QED BY <2>1, <2>2, <2>3
<1>2. StatsTyped => ValueExists
  BY <1>1 DEF ValueExists
<1> QED BY <1>2, StatsTypedInvariant, PTL

-----------------------------------------------------------------------------
(* The statistics are exact.                                               *)

\* The iterators are all of the current source: a range is asked for, which
\* is read to its end, or it is the first source.
OwnIters(s) == s.time # Unset \/ s.answer = <<>>

InHand(s) ==
    /\ MergedIters(s.iters, s.values, s.at, s.now)
    /\ MergedShown(s.iters, s.values, s.picked, s.now)
    /\ Exact(s.now)
    /\ s.time = Unset => Len(s.now.infos) <= 1

Given(s) ==
    \A i \in DOMAIN s.answer :
        s.time # Unset \/ i = 1 => Exact(s.answer[i]) /\ Complete(s.answer[i], s.time)

\* The inductive invariant.
Counted(s) ==
    /\ Given(s)
    /\ OwnIters(s) =>
          /\ s.step = "next" => s.iters = <<>>
          /\ s.step = "open" => Opened(s.iters, s.at, s.now)
          /\ s.step = "merge" => InHand(s)

StatsCounted == stats # Idle => Counted(stats)

\* Nothing has been shown yet.
LEMMA NothingShown ==
    ASSUME NEW a, a.infos = <<>>
    PROVE  Exact(a) /\ Len(a.infos) = 0
<1>1. DOMAIN a.infos = {} /\ Len(a.infos) = 0
  OBVIOUS
<1> QED BY <1>1 DEF Exact

\* The same request, as far as answers and iterators are concerned.
LEMMA SameGiven ==
    ASSUME NEW s, NEW t, t.time = s.time, t.answer = s.answer, Counted(s)
    PROVE  Given(t) /\ (OwnIters(t) <=> OwnIters(s))
BY DEF Counted, Given, OwnIters

\* A step keeps the statistics exact.
LEMMA CountedStep ==
    ASSUME EndsGiven, Stored, Unique, StatsTyped, StatsCounted, [Next]_vars
    PROVE  StatsCounted'
<1>0. StatsCounted' <=> (stats' # Idle => Counted(stats'))
  BY DEF StatsCounted
<1>1. CASE StatsAsk
  <2>1. /\ stats'.step = "next" /\ stats'.iters = <<>> /\ stats'.answer = <<>>
    BY <1>1, AskStep
  <2>2. DOMAIN stats'.answer = {}
    BY <2>1
  <2> QED BY <1>0, <2>1, <2>2 DEF Counted, Given
<1>2. CASE StatsSource
  <2>1. stats \in StatsRecords /\ Counted(stats) /\ stats.step = "next"
    BY <1>2 DEF StatsTyped, Typed, StatsSource, StatsCounted
  <2>2. /\ stats'.step = "open" /\ stats'.at = 0 /\ stats'.time = stats.time
        /\ stats'.iters = stats.iters /\ stats'.answer = stats.answer
        /\ stats'.now.there = {} /\ stats'.now.infos = <<>>
    BY <1>2, <2>1, SourceStep
  <2>3. ASSUME OwnIters(stats) PROVE Opened(stats'.iters, stats'.at, stats'.now)
    <3>1. stats'.iters = <<>>
      BY <2>1, <2>2, <2>3 DEF Counted
    <3>2. DOMAIN stats'.iters = {}
      BY <3>1
    <3> QED BY <2>2, <3>2 DEF Opened, Apart
  <2> QED BY <1>0, <2>1, <2>2, <2>3, SameGiven DEF Counted
<1>3. CASE StatsOpen
  <2>1. stats \in StatsRecords /\ Paired(stats) /\ Counted(stats) /\ stats.step = "open"
    BY <1>3 DEF StatsTyped, Typed, StatsOpen, StatsCounted
  <2>2. PICK iter, of : iter = StatisticsIter(stats.now.source, stats.at, stats.time)
                        /\ of = StatisticsOf(stats.now.source, stats.at, stats.time)
    OBVIOUS
  <2>3. /\ stats' \in StatsRecords /\ stats'.now \in Reports /\ stats'.values = stats.values
        /\ stats'.time = stats.time /\ stats'.picked = stats.picked
        /\ stats'.answer = stats.answer
        /\ stats'.now.there = stats.now.there \cup of /\ stats'.now.infos = stats.now.infos
        /\ stats'.iters = (IF iter = {} THEN stats.iters ELSE Append(stats.iters, iter))
        /\ \/ stats'.step = "open" /\ stats'.at = stats.at + 1
           \/ stats'.step = "merge" /\ stats'.at = 0
    BY <1>3, <2>1, <2>2, OpenStep
  <2>4. /\ stats.iters \in Seq(SUBSET Events) /\ stats.at \in Nat /\ stats.time \in StatsTimes
        /\ stats'.iters \in Seq(SUBSET Events)
    BY <2>1, <2>3, StatsParts
  <2>5. /\ stats.now \in Reports /\ stats.now.source \in Sources
        /\ stats.values = <<>> /\ stats.picked = {}
    BY <2>1 DEF Paired, Reports
  <2>6. iter = of /\ of \in SUBSET Events /\ OneCore(of) /\ \A e \in of : e.mid = stats.at
    BY <2>2, <2>4, <2>5, IterIsMeant, IterEvents
  <2>7. ASSUME OwnIters(stats) PROVE Opened(stats'.iters, stats.at + 1, stats'.now)
    <3>1. Opened(stats.iters, stats.at, stats.now)
      BY <2>1, <2>7 DEF Counted
    <3> QED BY <2>3, <2>4, <2>5, <2>6, <3>1, OpenedNext
  <2>8. Given(stats') /\ (OwnIters(stats') <=> OwnIters(stats))
    BY <2>1, <2>3, SameGiven
  <2>9. CASE stats'.step = "open" /\ stats'.at = stats.at + 1
    BY <1>0, <2>7, <2>8, <2>9 DEF Counted
  <2>10. CASE stats'.step = "merge" /\ stats'.at = 0
    <3>1. ASSUME OwnIters(stats) PROVE InHand(stats')
      <4>1. Hands(stats'.iters, <<>>, 0, stats'.now)
        BY <2>3, <2>4 DEF Hands
      <4>2. /\ MergedIters(stats'.iters, <<>>, 0, stats'.now)
            /\ MergedShown(stats'.iters, <<>>, {}, stats'.now)
        BY <2>7, <3>1, <4>1, OpenedMerged
      <4>3. stats'.now.infos = <<>>
        BY <2>7, <3>1 DEF Opened
      <4>4. Exact(stats'.now) /\ Len(stats'.now.infos) <= 1
        BY <4>3, NothingShown
      <4> QED BY <2>3, <2>5, <2>10, <4>2, <4>4 DEF InHand
    <3> QED BY <1>0, <2>8, <2>10, <3>1 DEF Counted
  <2> QED BY <2>3, <2>9, <2>10
<1>4. CASE StatsFirst
  <2>1. /\ stats \in StatsRecords /\ Paired(stats) /\ Counted(stats) /\ stats.step = "merge"
        /\ stats.at < Len(stats.iters)
    BY <1>4 DEF StatsTyped, Typed, StatsFirst, StatsCounted
  <2>2. PICK i, iter : i = stats.at + 1 /\ iter = stats.iters[i]
    OBVIOUS
  <2>3. /\ stats'.step = "merge" /\ stats'.at = i
        /\ stats'.time = stats.time /\ stats'.answer = stats.answer
        /\ stats'.now = stats.now /\ stats'.picked = stats.picked
        /\ stats'.iters = [stats.iters EXCEPT ![i] = IF iter = {} THEN {} ELSE Older(iter)]
        /\ stats'.values = (IF iter = {} THEN stats.values ELSE Append(stats.values, Newest(iter)))
    BY <1>4, <2>1, <2>2, FirstStep
  <2>4. stats.picked = {} /\ Hands(stats.iters, stats.values, stats.at, stats.now)
    BY <2>1, StatsParts DEF Paired, Hands
  <2>5. Given(stats') /\ (OwnIters(stats') <=> OwnIters(stats))
    BY <2>1, <2>3, SameGiven
  <2>6. ASSUME OwnIters(stats) PROVE InHand(stats')
    <3>1. InHand(stats)
      BY <2>1, <2>6 DEF Counted
    <3>2. /\ MergedIters(stats.iters, stats.values, stats.at, stats.now)
          /\ MergedShown(stats.iters, stats.values, {}, stats.now)
      BY <2>4, <3>1 DEF InHand
    <3>3. PICK I, V, A, N : I = stats.iters /\ V = stats.values /\ A = stats.at /\ N = stats.now
      OBVIOUS
    <3>4. PICK I2, V2 : /\ I2 = [I EXCEPT ![A + 1] = Older(I[A + 1])]
                        /\ V2 = Append(V, Newest(I[A + 1]))
      OBVIOUS
    <3>5. /\ Hands(I, V, A, N) /\ A < Len(I) /\ MergedIters(I, V, A, N)
          /\ MergedShown(I, V, {}, N)
      BY <2>1, <2>4, <3>2, <3>3
    <3>6. I[A + 1] # {} /\ MergedIters(I2, V2, A + 1, N) /\ MergedShown(I2, V2, {}, N)
      BY <3>4, <3>5, FirstMerged
    <3>7. stats'.iters = I2 /\ stats'.values = V2 /\ stats'.at = A + 1 /\ stats'.now = N
      BY <2>2, <2>3, <3>3, <3>4, <3>6
    <3>8. Exact(stats'.now) /\ (stats'.time = Unset => Len(stats'.now.infos) <= 1)
      BY <2>3, <3>1 DEF InHand
    <3> QED BY <2>3, <2>4, <3>6, <3>7, <3>8 DEF InHand
  <2> QED BY <1>0, <2>3, <2>5, <2>6 DEF Counted
<1>5. CASE StatsRound
  <2>1. /\ stats \in StatsRecords /\ Paired(stats) /\ Counted(stats) /\ stats.step = "merge"
        /\ stats.at >= Len(stats.iters) /\ stats.picked = {}
    BY <1>5 DEF StatsTyped, Typed, StatsRound, Merging, StatsCounted
  <2>2. PICK newest : newest = NewestTime(stats.values)
    OBVIOUS
  <2>3. PICK picked : picked = Picked(stats.values, newest)
    OBVIOUS
  <2>4. PICK info : info = InfoOf(stats.values, newest, picked)
    OBVIOUS
  <2>5. /\ stats'.step = "merge" /\ stats'.at = stats.at
        /\ stats'.time = stats.time /\ stats'.answer = stats.answer
        /\ stats'.iters = stats.iters /\ stats'.values = stats.values
        /\ stats'.picked = picked
        /\ stats'.now = WithInfo(stats.now, info)
        /\ stats.values # <<>> /\ (stats.time = Unset => stats.now.infos = <<>>)
    BY <1>5, <2>1, <2>2, <2>3, <2>4, SumStep
  <2>6. Hands(stats.iters, stats.values, stats.at, stats.now)
    BY <2>1, StatsParts DEF Paired, Hands
  <2>7. Given(stats') /\ (OwnIters(stats') <=> OwnIters(stats))
    BY <2>1, <2>5, SameGiven
  <2>8. ASSUME OwnIters(stats) PROVE InHand(stats')
    <3>1. InHand(stats)
      BY <2>1, <2>8 DEF Counted
    <3>2. /\ MergedIters(stats.iters, stats.values, stats.at, stats.now)
          /\ MergedShown(stats.iters, stats.values, {}, stats.now) /\ Exact(stats.now)
      BY <2>1, <3>1 DEF InHand
    <3>3. PICK now2 : now2 = WithInfo(stats.now, info)
      OBVIOUS
    <3>4. /\ Len(now2.infos) = Len(stats.now.infos) + 1
          /\ MergedIters(stats.iters, stats.values, stats.at, now2)
          /\ MergedShown(stats.iters, stats.values, picked, now2) /\ Exact(now2)
      <4>1. PICK I, V, A, N : I = stats.iters /\ V = stats.values /\ A = stats.at /\ N = stats.now
        OBVIOUS
      <4>2. /\ Hands(I, V, A, N) /\ A >= Len(I) /\ V # <<>> /\ MergedIters(I, V, A, N)
            /\ MergedShown(I, V, {}, N) /\ Exact(N)
        BY <2>1, <2>5, <2>6, <3>2, <4>1
      <4>3. /\ newest = NewestTime(V) /\ picked = Picked(V, newest)
            /\ info = InfoOf(V, newest, picked) /\ now2 = WithInfo(N, info)
        BY <2>2, <2>3, <2>4, <3>3, <4>1
      <4>4. /\ Len(now2.infos) = Len(N.infos) + 1 /\ MergedIters(I, V, A, now2)
            /\ MergedShown(I, V, picked, now2) /\ Exact(now2)
        BY <4>2, <4>3, RoundMerged
      <4> QED BY <4>1, <4>4
    <3>5. now2 = stats'.now
      BY <2>5, <3>3
    <3>6. stats.time = Unset => Len(stats.now.infos) = 0
      BY <2>5
    <3> QED BY <2>5, <3>4, <3>5, <3>6 DEF InHand
  <2> QED BY <1>0, <2>5, <2>7, <2>8 DEF Counted
<1>6. CASE StatsAdvance
  <2>1. stats \in StatsRecords /\ Paired(stats) /\ Counted(stats)
    BY <1>6 DEF StatsTyped, Typed, StatsAdvance, StatsCounted
  <2>2. PICK m : m = Max(stats.picked)
    OBVIOUS
  <2>3. /\ stats'.step = "merge" /\ stats'.at = stats.at
        /\ stats.step = "merge" /\ stats.at >= Len(stats.iters)
        /\ stats'.time = stats.time /\ stats'.now = stats.now /\ stats'.answer = stats.answer
        /\ stats'.picked = stats.picked \ {m}
        /\ m \in stats.picked /\ \A i \in stats.picked : i <= m
    BY <1>6, <2>1, <2>2, AdvanceStep
  <2>4. \/ /\ stats.iters[m] # {}
           /\ stats'.iters = [stats.iters EXCEPT ![m] = Older(stats.iters[m])]
           /\ stats'.values = [stats.values EXCEPT ![m] = Newest(stats.iters[m])]
        \/ /\ stats.iters[m] = {}
           /\ stats'.iters = RemoveAt(stats.iters, m)
           /\ stats'.values = RemoveAt(stats.values, m)
    BY <1>6, <2>1, <2>2, AdvanceStep
  <2>5. Hands(stats.iters, stats.values, stats.at, stats.now)
    BY <2>1, <2>3, StatsParts DEF Paired, Hands
  <2>6. stats.picked \subseteq DOMAIN stats.values
    <3>1. stats.values \in Seq(Events) /\ stats.picked \subseteq 1..Len(stats.values)
      BY <2>1, StatsParts DEF Paired
    <3> QED BY <3>1
  <2>7. Given(stats') /\ (OwnIters(stats') <=> OwnIters(stats))
    BY <2>1, <2>3, SameGiven
  <2>8. ASSUME OwnIters(stats) PROVE InHand(stats')
    <3>1. InHand(stats)
      BY <2>1, <2>3, <2>8 DEF Counted
    <3>2. /\ MergedIters(stats.iters, stats.values, stats.at, stats.now)
          /\ MergedShown(stats.iters, stats.values, stats.picked, stats.now)
      BY <3>1 DEF InHand
    <3>3. /\ MergedIters(stats'.iters, stats'.values, stats.at, stats.now)
          /\ MergedShown(stats'.iters, stats'.values, stats.picked \ {m}, stats.now)
      <4>1. CASE stats.iters[m] # {}
        BY <2>3, <2>4, <2>5, <2>6, <3>2, <4>1, ReplaceMerged
      <4>2. CASE stats.iters[m] = {}
        BY <2>3, <2>4, <2>5, <2>6, <3>2, <4>2, RemoveMerged
      <4> QED BY <4>1, <4>2
    <3> QED BY <2>3, <3>1, <3>3 DEF InHand
  <2> QED BY <1>0, <2>3, <2>7, <2>8 DEF Counted
<1>7. CASE StatsPush
  <2>1. stats \in StatsRecords /\ Paired(stats) /\ Counted(stats)
    BY <1>7 DEF StatsTyped, Typed, StatsPush, Merging, StatsCounted
  <2>2. /\ stats'.step = "next" /\ stats'.time = stats.time /\ stats'.iters = stats.iters
        /\ stats.picked = {} /\ stats.step = "merge"
        /\ stats.at >= Len(stats.iters) /\ stats.now \in Reports
        /\ stats'.answer = Append(stats.answer, stats.now)
        /\ stats.values = <<>> \/ (stats.time = Unset /\ stats.now.infos # <<>>)
    BY <1>7, <2>1, PushStep
  <2>3. Hands(stats.iters, stats.values, stats.at, stats.now)
    BY <2>1, <2>2, StatsParts DEF Hands
  <2>4. ASSUME OwnIters(stats) PROVE InHand(stats) /\ Complete(stats.now, stats.time)
    <3>1. InHand(stats)
      BY <2>1, <2>2, <2>4 DEF Counted
    <3>2. /\ MergedIters(stats.iters, stats.values, stats.at, stats.now)
          /\ MergedShown(stats.iters, stats.values, {}, stats.now)
          /\ stats.time = Unset => Len(stats.now.infos) <= 1
      BY <2>2, <3>1 DEF InHand
    <3> QED BY <2>2, <2>3, <3>1, <3>2, MergedComplete
  <2>5. /\ Len(stats.answer) \in Nat /\ DOMAIN stats.answer = 1..Len(stats.answer)
        /\ DOMAIN stats'.answer = 1..(Len(stats.answer) + 1)
        /\ stats'.answer[Len(stats.answer) + 1] = stats.now
        /\ \A i \in 1..Len(stats.answer) : stats'.answer[i] = stats.answer[i]
    <3>1. PICK old \in Seq(Reports), x \in Reports : old = stats.answer /\ x = stats.now
      BY <2>1, <2>2, StatsParts
    <3>2. /\ DOMAIN Append(old, x) = 1..(Len(old) + 1) /\ Append(old, x)[Len(old) + 1] = x
          /\ \A i \in 1..Len(old) : Append(old, x)[i] = old[i]
      BY AppendFacts
    <3>3. Len(old) \in Nat /\ DOMAIN old = 1..Len(old)
      OBVIOUS
    <3>4. stats'.answer = Append(old, x)
      BY <2>2, <3>1, Zenon
    <3> QED BY <3>1, <3>2, <3>3, <3>4, Zenon
  <2>6. ASSUME NEW i \in DOMAIN stats'.answer, stats'.time # Unset \/ i = 1
        PROVE  Exact(stats'.answer[i]) /\ Complete(stats'.answer[i], stats'.time)
    <3>1. CASE i \in DOMAIN stats.answer
      BY <2>1, <2>2, <2>5, <2>6, <3>1 DEF Counted, Given
    <3>2. CASE i = Len(stats.answer) + 1
      <4>1. OwnIters(stats)
        <5>1. CASE stats.time # Unset
          BY <5>1 DEF OwnIters
        <5>2. CASE i = 1
          <6>1. Len(stats.answer) = 0 /\ stats.answer \in Seq(Reports)
            BY <2>1, <2>5, <3>2, <5>2, StatsParts
          <6>2. stats.answer = <<>>
            BY <6>1
          <6> QED BY <6>2 DEF OwnIters
        <5> QED BY <2>2, <2>6, <5>1, <5>2
      <4> QED BY <2>2, <2>4, <2>5, <3>2, <4>1 DEF InHand
    <3> QED BY <2>5, <3>1, <3>2
  <2>7. ASSUME OwnIters(stats') PROVE stats'.iters = <<>>
    <3>1. stats.time # Unset
      <4>1. stats'.answer # <<>>
        <5>1. 1 \in DOMAIN stats'.answer
          BY <2>5
        <5>2. DOMAIN <<>> = {}
          OBVIOUS
        <5> QED BY <5>1, <5>2
      <4> QED BY <2>2, <2>7, <4>1 DEF OwnIters
    <3>2. InHand(stats) /\ stats.values = <<>>
      BY <2>2, <2>4, <3>1 DEF OwnIters
    <3>3. stats.iters \in Seq(SUBSET Events) /\ Len(stats.values) = 0 /\ stats.at \in Nat
      BY <2>1, <3>2, StatsParts
    <3>4. Len(stats.iters) \in Nat
      BY <3>3
    <3>5. Len(stats.iters) = 0
      BY <2>2, <3>2, <3>3, <3>4 DEF InHand, MergedIters
    <3> QED BY <2>2, <3>3, <3>5
  <2> QED BY <1>0, <2>2, <2>6, <2>7 DEF Counted, Given
<1>8. CASE StatsDone
  BY <1>0, <1>8 DEF StatsDone
<1>9. CASE UNCHANGED stats
  BY <1>9 DEF StatsCounted
<1> QED BY <1>1, <1>2, <1>3, <1>4, <1>5, <1>6, <1>7, <1>8, <1>9, StatsSteps DEF StatsStep

\* Whatever the sources, the events, the number of cores and the ranges, none
\* of which ends at 0: the statistics of a range, and those of the first
\* source when the latest are asked for, lose, double and mix up none of what
\* the store held when the cores were opened, while events come in.
THEOREM StatisticsAreExact ==
    ASSUME EndsGiven
    PROVE  Spec => []StatisticsExact
<1>1. Init => Unique /\ StatsCounted
  BY DEF Init, Unique, StatsCounted
<1>2. Unique /\ [Next]_vars => Unique'
  BY UniqueStep
<1>3. Stored /\ Unique /\ StatsTyped /\ StatsCounted /\ [Next]_vars => StatsCounted'
  BY CountedStep
<1>4. StatsTyped /\ StatsCounted => StatisticsExact
  <2> SUFFICES ASSUME StatsTyped, StatsCounted, stats # Idle,
                      stats.step # "next", OwnIters(stats)
               PROVE  Exact(stats.now)
    BY DEF StatisticsExact, StatsCounted, Counted, Given, OwnIters
  <2>1. stats \in StatsRecords /\ Counted(stats)
    BY DEF StatsTyped, Typed, StatsCounted
  <2>2. stats.step \in {"next", "open", "merge"}
    BY <2>1, StatsParts
  <2>3. CASE stats.step = "open"
    BY <2>1, <2>3, NothingShown DEF Counted, Opened
  <2>4. CASE stats.step = "merge"
    BY <2>1, <2>4 DEF Counted, InHand
  <2> QED BY <2>2, <2>3, <2>4
<1> QED BY <1>1, <1>2, <1>3, <1>4, StoreInvariant, StatsTypedInvariant, PTL DEF Spec
=============================================================================
