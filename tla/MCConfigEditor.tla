--------------------------- MODULE MCConfigEditor ---------------------------
(***************************************************************************)
(* Instances of ConfigEditor for TLC: with the whole registry and one form *)
(* opened (editor_forms), and with few types and several forms in a row    *)
(* (editor_session).  The files are cut from otelcol/config/example.yaml.  *)
(***************************************************************************)
EXTENDS ConfigEditor, SchemaRegistry, SourceTemplates

\* In string order.
IdOrder ==
  << "debug", "file_log/app", "file_log/hadoop", "file_log/iis",
     "file_log/json", "file_log/kafka", "file_log/mysql", "file_log/nginx",
     "file_log/postgresql", "file_log/sql_server", "file_log/windows_dhcp",
     "health_check", "logs/syslog", "logs/test", "new", "otlp",
     "splunk_hec/s1", "syslog/cef", "syslog/cisco_asa",
     "syslog/cisco_catalyst", "syslog/cisco_meraki", "syslog/generic",
     "syslog/haproxy", "syslog/tcp", "syslog/ubiquiti", "syslog/udp",
     "windows_event_log/active_directory" >>

MCIds == {IdOrder[i] : i \in DOMAIN IdOrder}
MCRank == [id \in MCIds |-> CHOOSE i \in DOMAIN IdOrder : IdOrder[i] = id]

MCcomponent_type ==
  [id \in MCIds |->
     CASE id \in {"file_log/app", "file_log/hadoop", "file_log/iis",
            "file_log/json", "file_log/kafka", "file_log/mysql",
            "file_log/nginx", "file_log/postgresql", "file_log/sql_server",
            "file_log/windows_dhcp"} -> "file_log"
       [] id \in {"syslog/cef", "syslog/cisco_asa", "syslog/cisco_catalyst",
            "syslog/cisco_meraki", "syslog/generic", "syslog/haproxy",
            "syslog/tcp", "syslog/ubiquiti", "syslog/udp"} -> "syslog"
       [] id = "windows_event_log/active_directory" -> "windows_event_log"
       [] id = "splunk_hec/s1" -> "splunk_hec"
       [] OTHER -> id]

\* A brace pattern has commas of its own.
MCPieces(s) == IF s = "{a,b}.log" THEN <<"{a", "b}.log">> ELSE <<s>>

\* The validator: pipelines refer to what is there.
MCValid(d) ==
  \A p \in DOMAIN d["Pipelines"] : \A tab \in DOMAIN category_key :
    LET leaf == get_path(d["Pipelines"][p], category_key[tab])
    IN  leaf[1] = "arr" =>
          \A i \in DOMAIN leaf[2] : leaf[2][i][2] \in DOMAIN d[tab]

MCTypesFor == types_for
MCTemplates == SOURCE_TEMPLATES
MCBuild(key, params) == build(key, params)

-----------------------------------------------------------------------------

File(receivers, exporters, extensions, pipelines, other) ==
  [sections |-> [Receivers |-> receivers, Exporters |-> exporters,
                 Extensions |-> extensions, Pipelines |-> pipelines],
   active |-> DOMAIN extensions, other |-> other]
NoFile == File(<< >>, << >>, << >>, << >>, {})

AddSourcetype == add_op("attributes.sourcetype", "app")
UdpReceiver ==
  "protocol" :> Str("rfc3164") @@ "udp.listen_address" :> Str("0.0.0.0:514")
    @@ "operators" :> <<"arr", <<Regex("re:cisco_asa"), AddSourcetype>>>>
TcpReceiver ==
  "protocol" :> Str("rfc3164") @@ "tcp.listen_address" :> Str("0.0.0.0:601")
    @@ "enable_octet_counting" :> <<"bool", TRUE>>
FileReceiver ==
  "include" :> Strs(<<"{a,b}.log", "app.log">>) @@ "start_at" :> Str("beginning")
Exporter ==
  "endpoint" :> Str("https://s1") @@ "token" :> Str("${S1_HEC_TOKEN}")
    @@ "otel_attrs_to_hec_metadata.source" :> Str("")
    @@ "sending_queue.enabled" :> <<"bool", FALSE>>
    @@ "sending_queue.num_consumers" :> <<"other", "4">>
Otlp == "protocols" :> <<"other", "null">>
HealthCheck == "endpoint" :> Str("127.0.0.1:13133")
Debug == "verbosity" :> Str("detailed")
Pipeline(receivers, exporters) ==
  "receivers" :> Strs(receivers) @@ "exporters" :> Strs(exporters)

Example ==
  File("syslog/udp" :> UdpReceiver @@ "syslog/tcp" :> TcpReceiver
         @@ "file_log/app" :> FileReceiver
         @@ "otlp" :> Otlp,
       "splunk_hec/s1" :> Exporter,
       "health_check" :> HealthCheck,
       "logs/syslog" :>
         Pipeline(<<"syslog/udp", "syslog/tcp">>, <<"splunk_hec/s1">>)
         @@ "logs/test" :> Pipeline(<<"syslog/udp">>, <<"splunk_hec/s1">>),
       {"processors"})
FormsFiles == {NoFile, Example}

\* Few types, two receivers in two pipelines.
Only(table, names) ==
  LET Keep(type) == type.type_name \in names IN SelectSeq(table, Keep)
SmallTypesFor ==
  [Receivers |-> Only(RECEIVER_TYPES, {"syslog"}),
   Exporters |-> Only(EXPORTER_TYPES, {"debug"}),
   Extensions |-> Only(EXTENSION_TYPES, {"health_check"})]
SmallOperatorTypes == Only(OPERATOR_TYPES, {"add", "remove"})
SmallTemplates == SelectSeq(SOURCE_TEMPLATES, LAMBDA t : t.key = "ubiquiti")
SmallExample ==
  File("syslog/udp" :> UdpReceiver @@ "syslog/tcp" :> TcpReceiver,
       "debug" :> Debug, << >>,
       "logs/syslog" :> Pipeline(<<"syslog/udp", "syslog/tcp">>, <<"debug">>)
         @@ "logs/test" :> Pipeline(<<"syslog/udp">>, <<"debug">>), {})
SessionFiles == {SmallExample}
SessionNames == {"", "syslog/udp", "new"}
SessionLists == {<<"syslog/udp", "">>}
FormsLists == {<< >>, <<"x", "", "y">>}
=============================================================================
