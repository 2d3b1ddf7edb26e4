-------------------------- MODULE SourceTemplates --------------------------
(***************************************************************************)
(* templates.rs: the parameters of every source template and the receiver  *)
(* each one builds from them.  Patterns of regex_parser operators are only *)
(* named ("re:..."), as are the paths of the log files.                    *)
(***************************************************************************)
EXTENDS Forms

\* The parameter as a string, or the build function's own fallback.
param_str(params, key, fallback) ==
  IF IsStr(get_path(params, key)) THEN params[key][2] ELSE fallback

set_transport(map, params, default_addr) ==
  LET addr == Str(param_str(params, "listen_address", default_addr))
  IN  IF param_str(params, "transport", "udp") = "tcp"
      THEN set_path(set_path(map, "tcp.listen_address", addr),
                    "enable_octet_counting", <<"bool", TRUE>>)
      ELSE set_path(map, "udp.listen_address", addr)

add_op(field, value) ==
  <<"obj", [type |-> Str("add"), field |-> Str(field), value |-> Str(value)]>>
move_op(from, to) ==
  <<"obj", [type |-> Str("move"), from |-> Str(from), to |-> Str(to)]>>

\* The parsers: each leaves alone what it cannot parse.
Quiet == Str("send_quiet")
Regex(pattern) ==
  <<"obj", [type |-> Str("regex_parser"), parse_from |-> Str("body"),
            parse_to |-> Str("attributes"), regex |-> Str(pattern),
            on_error |-> Quiet]>>
KeyValue(from) ==
  <<"obj", [type |-> Str("key_value_parser"), parse_from |-> Str(from),
            parse_to |-> Str("attributes"), on_error |-> Quiet]>>
JsonParser ==
  <<"obj", [type |-> Str("json_parser"), parse_from |-> Str("body"),
            parse_to |-> Str("attributes"), on_error |-> Quiet]>>
Severity ==
  <<"obj", [type |-> Str("severity_parser"),
            parse_from |-> Str("attributes.severity"),
            preset |-> Str("default"), on_error |-> Quiet]>>

Datasource(s) == add_op("attributes.datasource", s)
Sourcetype(s) == add_op("attributes.sourcetype", s)
MessageToBody == move_op("attributes.message", "body")

-----------------------------------------------------------------------------
\* Syslog sources.

SyslogParams(address) ==
  << EnumField("transport", <<"udp", "tcp">>, TRUE, Some("udp")),
     Field("listen_address", "Str", TRUE, Some(address)) >>

Syslog(params, protocol, address, ops) ==
  set_path(set_transport([protocol |-> Str(protocol)], params, address),
           "operators", <<"arr", ops>>)

CISCO_ASA_PARAMS == SyslogParams("0.0.0.0:514")
build_cisco_asa(params) ==
  Syslog(params, "rfc3164", "0.0.0.0:514",
    << Regex("re:cisco_asa"), Severity, Datasource("cisco_asa"),
       Sourcetype("cisco_asa_ts_parser"), MessageToBody >>)

CISCO_CATALYST_PARAMS == SyslogParams("0.0.0.0:515")
build_cisco_catalyst(params) ==
  Syslog(params, "rfc3164", "0.0.0.0:515",
    << Regex("re:cisco_catalyst"), Severity, Datasource("cisco_ios"),
       Sourcetype("cisco_catalyst_ts_parser"), MessageToBody >>)

CISCO_MERAKI_PARAMS == SyslogParams("0.0.0.0:516")
build_cisco_meraki(params) ==
  Syslog(params, "none", "0.0.0.0:516",
    << Regex("re:cisco_meraki"), KeyValue("attributes.message"),
       Datasource("cisco_meraki"), Sourcetype("cisco_meraki_ts_parser"),
       MessageToBody >>)

UBIQUITI_PARAMS == SyslogParams("0.0.0.0:517")
build_ubiquiti(params) ==
  Syslog(params, "rfc3164", "0.0.0.0:517",
    << Datasource("ubiquiti"), Sourcetype("ubiquiti_ts_parser") >>)

HAPROXY_PARAMS == SyslogParams("0.0.0.0:518")
BugHaproxy(params) ==
  Syslog(params, "rfc3164", "0.0.0.0:514",
    << Regex("re:haproxy"), Datasource("haproxy"),
       Sourcetype("haproxy_ts_parser") >>)
build_haproxy(params) ==
  Syslog(params, "rfc3164", "0.0.0.0:518",
    << Regex("re:haproxy"), Datasource("haproxy"),
       Sourcetype("haproxy_ts_parser") >>)

CEF_PARAMS == SyslogParams("0.0.0.0:519")
build_cef(params) ==
  Syslog(params, "none", "0.0.0.0:519",
    << Regex("re:cef"), KeyValue("attributes.extension"), Datasource("cef"),
       Sourcetype("cef_ts_parser") >>)

GENERIC_SYSLOG_PARAMS == SyslogParams("0.0.0.0:1514")
build_generic_syslog(params) ==
  Syslog(params, "rfc5424", "0.0.0.0:1514",
    << Datasource("generic_syslog"), Sourcetype("generic_rsyslog"),
       MessageToBody >>)

-----------------------------------------------------------------------------
\* Tailed files.

\* `include` as given, whatever its shape, or the fallback.
TailedFile(params, fallback, ops) ==
  [include |-> IF get_path(params, "include") = Missing
               THEN Strs(<<fallback>>) ELSE params["include"],
   start_at |-> Str("end"), operators |-> <<"arr", ops>>]

IncludeParam(default) == Field("include", "StringList", TRUE, default)

FILE_LOG_PARAMS ==
  << IncludeParam(None), Field("sourcetype", "Str", TRUE, None) >>
build_file_log(params) ==
  TailedFile(params, "/var/log/*.log",
    << Sourcetype(param_str(params, "sourcetype", "generic")) >>)

JSON_LOGS_PARAMS ==
  << IncludeParam(None), Field("sourcetype", "Str", FALSE, Some("json")) >>
build_json_logs(params) ==
  TailedFile(params, "/var/log/*.jsonl",
    << JsonParser, Sourcetype(param_str(params, "sourcetype", "json")) >>)

\* The remaining ones parse by one pattern and tag the source.
TailParsed(params, fallback, pattern, sourcetype) ==
  TailedFile(params, fallback, << Regex(pattern), Sourcetype(sourcetype) >>)

W3C_LOGS_PARAMS == << IncludeParam(Some("W3SVC1/*.log")) >>
build_w3c_logs(params) ==
  TailParsed(params, "W3SVC1/*.log", "re:w3c", "iis_w3c")

NGINX_PARAMS == << IncludeParam(Some("/var/log/nginx/access.log")) >>
build_nginx(params) ==
  TailParsed(params, "/var/log/nginx/access.log", "re:nginx", "nginx_access")

WINDOWS_DHCP_PARAMS == << IncludeParam(Some("DhcpSrvLog-*.log")) >>
build_windows_dhcp(params) ==
  TailParsed(params, "DhcpSrvLog-*.log", "re:dhcp", "windows_dhcp")

MYSQL_PARAMS == << IncludeParam(Some("/var/log/mysql/error.log")) >>
build_mysql(params) ==
  TailParsed(params, "/var/log/mysql/error.log", "re:mysql", "mysql_error")

POSTGRESQL_PARAMS == << IncludeParam(Some("postgresql-*.log")) >>
build_postgresql(params) ==
  TailParsed(params, "postgresql-*.log", "re:postgresql", "postgresql")

SQL_SERVER_PARAMS == << IncludeParam(Some("/var/opt/mssql/log/errorlog")) >>
build_sql_server(params) ==
  TailParsed(params, "/var/opt/mssql/log/errorlog", "re:mssql", "sql_server")

KAFKA_PARAMS == << IncludeParam(Some("/var/log/kafka/server.log")) >>
build_kafka(params) ==
  TailParsed(params, "/var/log/kafka/server.log", "re:kafka", "kafka")

HADOOP_PARAMS == << IncludeParam(Some("/var/log/hadoop/*.log")) >>
build_hadoop(params) ==
  TailParsed(params, "/var/log/hadoop/*.log", "re:hadoop", "hadoop")

ACTIVE_DIRECTORY_PARAMS ==
  << Field("channel", "Str", TRUE, Some("Security")) >>
build_active_directory(params) ==
  [channel |-> Str(param_str(params, "channel", "Security")),
   query |-> Str("*"),
   operators |-> <<"arr", << Sourcetype("windows_security"),
                             Datasource("active_directory") >>>>]

-----------------------------------------------------------------------------

Template(key, receiver_type, default_id, params) ==
  [key |-> key, receiver_type |-> receiver_type, default_id |-> default_id,
   params |-> params]

SOURCE_TEMPLATES ==
  << Template("cisco_asa", "syslog", "syslog/cisco_asa", CISCO_ASA_PARAMS),
     Template("cisco_catalyst", "syslog", "syslog/cisco_catalyst",
              CISCO_CATALYST_PARAMS),
     Template("cisco_meraki", "syslog", "syslog/cisco_meraki",
              CISCO_MERAKI_PARAMS),
     Template("ubiquiti", "syslog", "syslog/ubiquiti", UBIQUITI_PARAMS),
     Template("haproxy", "syslog", "syslog/haproxy", HAPROXY_PARAMS),
     Template("cef", "syslog", "syslog/cef", CEF_PARAMS),
     Template("generic_syslog", "syslog", "syslog/generic",
              GENERIC_SYSLOG_PARAMS),
     Template("file_log", "file_log", "file_log/app", FILE_LOG_PARAMS),
     Template("json_logs", "file_log", "file_log/json", JSON_LOGS_PARAMS),
     Template("w3c_logs", "file_log", "file_log/iis", W3C_LOGS_PARAMS),
     Template("nginx", "file_log", "file_log/nginx", NGINX_PARAMS),
     Template("windows_dhcp", "file_log", "file_log/windows_dhcp",
              WINDOWS_DHCP_PARAMS),
     Template("active_directory", "windows_event_log",
              "windows_event_log/active_directory", ACTIVE_DIRECTORY_PARAMS),
     Template("mysql", "file_log", "file_log/mysql", MYSQL_PARAMS),
     Template("postgresql", "file_log", "file_log/postgresql",
              POSTGRESQL_PARAMS),
     Template("sql_server", "file_log", "file_log/sql_server",
              SQL_SERVER_PARAMS),
     Template("kafka", "file_log", "file_log/kafka", KAFKA_PARAMS),
     Template("hadoop", "file_log", "file_log/hadoop", HADOOP_PARAMS) >>

\* The `build` function of a template.
build(key, params) ==
  CASE key = "cisco_asa"        -> build_cisco_asa(params)
    [] key = "cisco_catalyst"   -> build_cisco_catalyst(params)
    [] key = "cisco_meraki"     -> build_cisco_meraki(params)
    [] key = "ubiquiti"         -> build_ubiquiti(params)
    [] key = "haproxy"          -> build_haproxy(params)
    [] key = "cef"              -> build_cef(params)
    [] key = "generic_syslog"   -> build_generic_syslog(params)
    [] key = "file_log"         -> build_file_log(params)
    [] key = "json_logs"        -> build_json_logs(params)
    [] key = "w3c_logs"         -> build_w3c_logs(params)
    [] key = "nginx"            -> build_nginx(params)
    [] key = "windows_dhcp"     -> build_windows_dhcp(params)
    [] key = "active_directory" -> build_active_directory(params)
    [] key = "mysql"            -> build_mysql(params)
    [] key = "postgresql"       -> build_postgresql(params)
    [] key = "sql_server"       -> build_sql_server(params)
    [] key = "kafka"            -> build_kafka(params)
    [] key = "hadoop"           -> build_hadoop(params)
=============================================================================
