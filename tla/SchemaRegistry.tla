--------------------------- MODULE SchemaRegistry ---------------------------
(***************************************************************************)
(* The field tables of schema_registry.rs: which component and operator    *)
(* types the editor knows, the fields of each, and which of these are      *)
(* required or have a default.  Help texts are left out; addresses, paths  *)
(* and patterns are only names here.                                       *)
(***************************************************************************)
EXTENDS Forms

OPERATORS == Field("operators", "OperatorList", FALSE, None)
STORAGE == Field("storage", "Str", FALSE, None)

SYSLOG_FIELDS ==
  << EnumField("protocol", <<"rfc3164", "rfc5424", "none">>, TRUE,
               Some("rfc3164")),
     Field("udp.listen_address", "Str", TRUE, Some("0.0.0.0:514")),
     Field("tcp.listen_address", "Str", FALSE, None),
     Field("enable_octet_counting", "Bool", FALSE, Some("false")),
     OPERATORS >>

FILE_LOG_FIELDS ==
  << Field("include", "StringList", TRUE, None),
     Field("exclude", "StringList", FALSE, None),
     EnumField("start_at", <<"beginning", "end">>, FALSE, Some("end")),
     Field("poll_interval", "Duration", FALSE, Some("200ms")),
     STORAGE, OPERATORS >>

WINDOWS_EVENT_LOG_FIELDS ==
  << Field("channel", "Str", TRUE, None),
     Field("query", "Str", FALSE, Some("*")),
     EnumField("start_at", <<"beginning", "end">>, FALSE, Some("end")),
     STORAGE, OPERATORS >>

SPLUNK_HEC_FIELDS ==
  << Field("endpoint", "Str", TRUE, Some("https://example.invalid:8088")),
     Field("token", "Str", TRUE, None),
     Field("source", "Str", FALSE, None),
     Field("sourcetype", "Str", FALSE, None),
     Field("index", "Str", FALSE, None),
     Field("otel_attrs_to_hec_metadata.source", "Str", FALSE, Some("")),
     Field("otel_attrs_to_hec_metadata.sourcetype", "Str", FALSE, Some("")),
     Field("otel_attrs_to_hec_metadata.index", "Str", FALSE, Some("")),
     Field("sending_queue.enabled", "Bool", FALSE, Some("true")),
     Field("retry_on_failure.enabled", "Bool", FALSE, Some("true")) >>

DEBUG_FIELDS ==
  << EnumField("verbosity", <<"basic", "normal", "detailed">>, FALSE,
               Some("normal")) >>

DATASET_FIELDS ==
  << Field("dataset_url", "Str", TRUE, Some("https://app.scalyr.com")),
     Field("api_key", "Str", TRUE, None),
     Field("server_host.use_hostname", "Bool", FALSE, Some("true")),
     Field("server_host.server_host", "Str", FALSE, None) >>

LOGBUFFER_FIELDS ==
  << Field("endpoint", "Str", FALSE, Some("http://127.0.0.1:7801")) >>

FILE_STORAGE_FIELDS ==
  << Field("directory", "Str", TRUE, Some("/var/lib/sgcia/otelcol-storage")),
     Field("create_directory", "Bool", FALSE, Some("true")) >>

HEALTH_CHECK_FIELDS ==
  << Field("endpoint", "Str", FALSE, Some("127.0.0.1:13133")) >>

STATUSCFG_FIELDS ==
  << Field("endpoint", "Str", FALSE, Some("127.0.0.1:7801")),
     Field("config_path", "Str", TRUE, None),
     Field("metrics_url", "Str", FALSE, Some("http://localhost:8888/metrics")),
     Field("fleet_server_url", "Str", FALSE, None),
     Field("fleet_token", "Str", FALSE, None),
     Field("fleet_instance_id_path", "Str", FALSE,
           Some("/var/lib/sgcia/sgcia-fleet-instance-uid")) >>

-----------------------------------------------------------------------------
\* Operators of a receiver's parsing chain.

BugON_ERROR ==
  EnumField("on_error", <<"send", "drop">>, FALSE, Some("send"))
ON_ERROR ==
  EnumField("on_error", <<"send", "send_quiet", "drop", "drop_quiet">>, FALSE,
            Some("send"))
ParseFrom(required, default) ==
  Field("parse_from", "Str", required, Some(default))
PARSE_TO == Field("parse_to", "Str", FALSE, Some("attributes"))

REGEX_PARSER_FIELDS ==
  << Field("regex", "Str", TRUE, Some("any message")),
     ParseFrom(FALSE, "body"), PARSE_TO, ON_ERROR >>

JSON_PARSER_FIELDS == << ParseFrom(FALSE, "body"), PARSE_TO, ON_ERROR >>

KEY_VALUE_PARSER_FIELDS ==
  << ParseFrom(FALSE, "body"), PARSE_TO,
     Field("delimiter", "Str", FALSE, Some("=")),
     Field("pair_delimiter", "Str", FALSE, None), ON_ERROR >>

SEVERITY_PARSER_FIELDS ==
  << ParseFrom(TRUE, "attributes.severity"),
     Field("preset", "Str", FALSE, Some("default")), ON_ERROR >>

TIME_PARSER_FIELDS ==
  << ParseFrom(TRUE, "attributes.ts"),
     EnumField("layout_type", <<"strptime", "gotime", "epoch">>, FALSE,
               Some("strptime")),
     Field("layout", "Str", TRUE, Some("iso8601")), ON_ERROR >>

ADD_FIELDS ==
  << Field("field", "Str", TRUE, Some("attributes.datasource")),
     Field("value", "Str", TRUE, None) >>

REMOVE_FIELDS == << Field("field", "Str", TRUE, Some("attributes.secret")) >>

FROM_TO_FIELDS ==
  << Field("from", "Str", TRUE, Some("attributes.message")),
     Field("to", "Str", TRUE, Some("body")) >>

-----------------------------------------------------------------------------
\* The type tables, in the order the pickers list them.

Type(type_name, fields) == [type_name |-> type_name, fields |-> fields]

RECEIVER_TYPES ==
  << Type("syslog", SYSLOG_FIELDS), Type("file_log", FILE_LOG_FIELDS),
     Type("windows_event_log", WINDOWS_EVENT_LOG_FIELDS) >>

EXPORTER_TYPES ==
  << Type("splunk_hec", SPLUNK_HEC_FIELDS), Type("debug", DEBUG_FIELDS),
     Type("dataset", DATASET_FIELDS), Type("logbuffer", LOGBUFFER_FIELDS) >>

EXTENSION_TYPES ==
  << Type("file_storage", FILE_STORAGE_FIELDS),
     Type("health_check", HEALTH_CHECK_FIELDS),
     Type("statuscfg", STATUSCFG_FIELDS) >>

OPERATOR_TYPES ==
  << Type("regex_parser", REGEX_PARSER_FIELDS),
     Type("json_parser", JSON_PARSER_FIELDS),
     Type("key_value_parser", KEY_VALUE_PARSER_FIELDS),
     Type("severity_parser", SEVERITY_PARSER_FIELDS),
     Type("time_parser", TIME_PARSER_FIELDS),
     Type("add", ADD_FIELDS), Type("remove", REMOVE_FIELDS),
     Type("copy", FROM_TO_FIELDS), Type("move", FROM_TO_FIELDS) >>

\* A category is named by its tab.
types_for ==
  [Receivers |-> RECEIVER_TYPES, Exporters |-> EXPORTER_TYPES,
   Extensions |-> EXTENSION_TYPES]
=============================================================================
