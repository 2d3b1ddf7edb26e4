# TLA+ models of the sgcia fleet

This directory holds the formal models of the program in `src/`: a telemetry
collector agent (`src/otelcol`, a custom OpenTelemetry Collector distribution
with a status/OpAMP extension), its terminal tools (`src/crates`, a config
editor and a dashboard), and the fleet server that manages many agents
(`src/fleet/sgcia-fleet-server`). TLC checks the models on small instances;
TLAPS proves the theorems listed below for every value of the constants.

    tlc -workers 2 -config rollout_serial.cfg MCConfigRollout
    tlapm ConfigRolloutProofs.tla

`PROJECT.json` is the index: components, runs, the bug each property detects
(mutants), which source lines each definition stands for (map), findings,
hazards and theorems.

Operators whose name begins with `Bug` are not part of the model: each is a
plausible wrong version of the definition below it, and shows that a property
would notice.

## 1. The system

### Parts, state and operations

| Part | Source | State | Operations |
|---|---|---|---|
| REST API | `fleet/sgcia-fleet-server/api.go` | none of its own; one goroutine per request | push a config, roll back, bulk push by tag, delete an agent; upload, push, roll back, bulk push a package |
| OpAMP endpoint | `opampserver.go` | `connRegistry`: agent id -> connection, under a mutex | `OnMessage`, `OnConnectionClose`, one goroutine per connection; `pushConfig`, `pushPackage` |
| Inventory | `store.go` | SQLite tables `agents` (pending config, last known good, last error, package columns, restart history, effective config hash) and `packages` | one SQL statement per operation |
| OpAMP client of the agent | `otelcol/extensions/statuscfgextension/opamp.go` | the SDK's session, last statuses reported, last config hash reported, the instance id file | connect and reconnect, `reportLoop`, `handleRemoteConfig`, `UpdateContent` |
| Config file of the agent | `opamp.go`, `crates/collector/src/editor/model.rs` | `config.yaml`, `config.yaml.tmp` | `validateAndApply`, `EditorDoc::save` |
| Process supervision | `packaging/systemd/sgcia.service` | the running process | `Restart=always` |
| Package installation | `opamp.go`, `api.go` | package files on the server, binary on the agent | upload, download, `UpdateContent` |
| Restart history | `store.go` | `restart_history`, `last_started_at` | `recordStartedAt` |
| Drift report | `opamp.go`, `store.go` | last reported hash | `checkEffectiveConfigDrift`, `setEffectiveConfigHash` |
| Log ring buffer | `logbuffer.go` | fixed ring, `next`, `full` | `push`, `clear`, `snapshot` |
| Log buffer exporter | `exporters/logbufferexporter/exporter.go` | none; one POST with a time-out per batch | `consumeLogs` |
| Status snapshot | `extension.go`, `promscrape.go` | none | per-pipeline shares of component counters |
| Editor | `editor/*.rs` | YAML document, dirty flag, screens, forms | one per key |
| Dashboard | `dashboard/*` | last snapshot, error, screen | poll, key |

### How they interact

An operator's request records a pending config in the agent's row, looks the
agent's connection up in the registry and sends an OpAMP RemoteConfig. The agent
starts a goroutine per offer, which validates a candidate file with the
collector's own `validate` subcommand, renames it over `config.yaml`, reports a
RemoteConfigStatus through the OpAMP client and arms a timer that ends the
process; systemd starts it again on the new file. On the server the connection's
goroutine registers the connection on every message, touches the row, and turns
an APPLIED status into "pending becomes last known good" and a FAILED one into
an error. A package takes the same way, except that the offer is a URL and a
hash: the agent downloads the bytes, hashes them, runs the build with
`--version`, renames it over its own binary and restarts.

Inside the agent, the pipelines' exporters, among them the log buffer exporter
that posts to the extension's ring, are scraped by the extension when the
dashboard asks for `/status`.

### What is hard

- **Interleaving.** Two requests for one agent; two connections of one agent
  (the old one not yet noticed as dead); two offers in two goroutines; two
  uploads of one version; the local editor beside the agent.
- **Ordering.** The row has one pending slot and the status is not compared
  with it; statuses are repeated on every reconnection; an answer comes after
  the time-out that gave it up.
- **Failure.** Connections drop with messages in flight, the agent ends itself
  after each applied config or package, either side crashes between any two
  steps, the row and the files survive and nothing else does.
- **Timers.** `restartDelay` against the delivery of the last status, the
  dashboard's and the exporter's time-outs against handlers that go on.
- **Two tables of one thing.** The editor's forms, its templates and what a
  document may hold are three descriptions that have to agree.

The complete list, each at its line, is under `hazards` in `PROJECT.json`.

### What makes each part correct

- *Config push*: no config reaches an agent it was not meant for; a rollback
  target is a config that ran on that agent; an outstanding push is shown as
  pending; every offer is answered.
- *Registry*: the entry for an agent is one of its own connections, and after
  failures it ends up being the live one.
- *Config file*: at any instant a collector that starts finds a validated
  config; writes are all or nothing; no candidate is left behind.
- *Agent*: claims APPLIED only for what it installed; a process behind its file
  restarts.
- *Packages*: what is served is what its hash says; the binary is always a whole
  published build that runs, and ends up running; every offer is answered.
- *Reports*: an agent keeps its identity; every restart is counted once; the
  server comes to know the config file's hash.
- *Ring buffer*: the last N records since the last clear, in order, a batch as a
  whole.
- *Shares*: per-pipeline figures add up to the component's counter within
  rounding.
- *Dashboard*: never goes back, always quits, recovers after a restart.
- *Editor*: no key sequence indexes what is not there; no dangling reference
  after a removal; nothing overwritten by a template; no field changed that the
  user left alone; no unsaved change claimed as saved.

## 2. The modules

| Module | Role |
|---|---|
| `ConfigRollout`, `MCConfigRollout`, `ConfigRolloutProofs` | the config lane end to end: requests, store, registry, connections, agents, restarts |
| `LiveFile` | abstract specification: a config file that is only ever replaced, whole, by a config that its writer's validation let through |
| `ConfigApply`, `MCConfigApply`, `ConfigApplyProofs` | `validateAndApply` and the editor's save, down to inodes and names; implements `LiveFile` |
| `PackageStore`, `PackageStoreProofs` | the server's package files and table, under uploads |
| `PackageRollout`, `MCPackageRollout`, `PackageRolloutProofs` | composes `PackageStore` with pushes, rollbacks, one agent's downloads and installations, and restarts |
| `AgentReports`, `AgentReportsProofs` | what an agent reports about itself: identity, start time, config hash |
| `LogWindow` | abstract specification: the last `Capacity` records in order |
| `LogBuffer`, `LogBufferProofs` | the ring, record by record under its mutex; implements `LogWindow` |
| `StatusExtension` | composes `LogBuffer` with the collector's counters, the snapshot and its shares, the log buffer exporter and the HTTP handlers |
| `Dashboard`, `MCDashboard`, `DashboardProofs` | composes `StatusExtension` with the dashboard program |
| `Forms` | the editor's values and widgets: how a form reads a value and writes it back |
| `SchemaRegistry`, `SourceTemplates` | the tables of `schema_registry.rs` and `templates.rs` |
| `ConfigEditor`, `MCConfigEditor`, `ConfigEditorProofs` | the editor's document and screens, key by key |

`ConfigApply` opens up what takes effect in one step in `ConfigRollout`,
`Apply(a, h)`. While one handler of an agent is at work that is all there is to
it, which `TakingTurnsRefines` justifies: the file becomes the very config that
was validated. Handlers that overlap write, validate and rename one candidate,
and `ConfigRollout` lets them do to each other all that `ConfigApply` shows they
can: `Apply` may install the config of any other handler that was at work
meanwhile, or a mixture (`Torn`, which stands for a truncated file too), validated
or not (`Renamed`); and once one of them has renamed the candidate, another that
still has it open writes into the agent's config file (`WriteThrough`). `near`
says whose configs a handler may have met, `exposed` who may have the renamed
file open, `mixed` (history) which configs were ever in `validateAndApply`
together. These sets are generous: they hold whoever was inside
`validateAndApply`, at whatever line. What `ConfigRollout` establishes therefore
holds for handlers that overlap as well, and says where it does not.

### ConfigRollout and the code

| Variable | Code |
|---|---|
| `row[a]` | the agent's line of the `agents` table, config columns (`store.go`). `pending` and `lkg` stand for the body and hash columns, always written together |
| `registry[a]` | `connRegistry.byID` |
| `owner[c]` | the `id` in the closure of a connection's callbacks; `None` once `OnConnectionClose` ran |
| `serving[c]` | where the connection's goroutine is in `handleAgentMessage` |
| `req[r]` | where a request's goroutine is in `pushConfigToAgent` and the bulk loop |
| `up[c]`, `down[c]` | messages in flight on the websocket |
| `conn[a]`, `synced[a]`, `out[a]` | the OpAMP client: its connection, the last status set, the status the next message carries |
| `live[a]`, `running[a]`, `dying[a]` | content of `config.yaml`, the config the process loaded, the `AfterFunc` timer |
| `task[a][h]` | a `handleRemoteConfig` goroutine |
| `near[a][h]`, `exposed[a]` | what overlapping handlers have done to the candidate (above) |
| `offered`, `applied`, `mixed` | history, only in properties |
| `used` | what is used up of each bound |

Steps: one SQL statement, one critical section of the registry's mutex, one
message handed to or taken from the transport, one file replacement.

- `Push`, `BulkPush`, `Rollback` are the handlers' preambles, `RecordPending`,
  `Lookup` and `Send` the three stages of `pushConfigToAgent`; the gaps between
  them are where other actors run. `RecordFails` is its error return: nothing is
  sent to this target, and the bulk loop goes on with the next one.
- `Register`, `TouchRow`, `Recreate`, `RecordStatus` are the statements of
  `OnMessage` in order; `Close` is `OnConnectionClose` and runs in the same
  goroutine, so only when it is idle.
- `Receive`, `Apply` or `Reject`, `Report` are one `handleRemoteConfig`, and
  `WriteThrough` what it may do in between to a file another one renamed;
  `Restart`, `Crash` and `Start` are the process under systemd. A restart loses
  the client's state, the goroutines and the connection.
- `SendNext` is the SDK's next message: the periodic one of `reportLoop`, or one
  triggered by a status. `Connect`'s first message repeats the last status of
  this process. `ReportStatus` sends only a status that differs from the last; a
  second failure of the same config may be worded as the first or not. These
  rules are the opamp-go client's, which is outside `src/`; they are modelled
  from how `opamp.go` relies on it.

Simplifications: the server's reply carries no offer and is left out; tags are
an arbitrary choice among the agents the store knows; a message carries only
what this lane reads; the local editor belongs to `ConfigApply`.

Two constants select environments, here and in `PackageRollout`, and each run
says which it uses:

- `Serial = TRUE`: operators push only to an agent for which nothing of an
  earlier push is in progress. The code does not enforce it. With `FALSE`
  anything goes.
- `Graceful = TRUE`: `restartDelay` is long enough for the last status to reach
  the server, and the server reads what a closed connection has buffered. The
  delay is there for that purpose, but nothing enforces it.

### ConfigApply and the code

`live` and `tmp` are directory entries, `data` the contents of inodes, `pc`,
`body`, `fd` a writer in the middle of its call. `Begin` to `Cleanup` follow
`validateAndApply` for agent goroutines and `save`, `validate_with_binary` and
`atomic_write` for editors: the agent opens, writes, closes, validates *by
name*, renames *by name*, removes *by name*; the editor validates a private
copy, then opens, writes, renames. `FailIO` is any of these calls returning an
error; `Crash` is the death of a process with its writers. What the editor
validates is `Substituted[c]`, the document with a placeholder for every string
that has `${` in it (`placeholder_for_validation`), and what it writes is the
document; so `Vetted[w]`, the configs a writer's validation lets through, are for
an agent the valid ones and for an editor those whose copy is valid. `Substituted`
is any function; the instance has a config that is rejected although its copy is
accepted, and one the other way round. `accepted` is a
history variable and doubles as the refinement mapping's second component;
`interrupted` records that a process died at work or the file system failed.
`Exclusive = TRUE` makes writers take turns.

Left out: a torn write by a machine (rather than process) crash, since the
candidate is fsynced before the rename; file permissions.

### PackageStore, PackageRollout and the code

In `PackageStore`, `final[v]` and `tmp[v]` are the directory entries of a
version, `data` the inodes, `packages` the table, `upload[u]` a
`handleUploadPackage` between two of its calls: `OpenUpload`, `Copy`,
`RenameUpload`, `RecordPackage`, each with its failure. The hash an upload
records is that of the bytes it copied, not of the file it renamed. `published`
and `suspect` are history: the builds whose hash was recorded, and the versions
whose last upload met another one or was cut off between rename and record.

In `PackageRollout`, `PushPackage`, `RollbackPackage`, `RecordPending` and
`SendOffer` are the handlers and `pushPackage`; `RecordStatus` is the package
part of `OnMessage`. `BeginSync` to `Report` are the SDK's syncer around
`UpdateContent`: `Download` (whatever the file holds at that moment, or cut
short), `Check` (hash, then `--version`), `Swap`, `ArmRestart`. The syncer is
external; from how `opamp.go` uses it, it runs one sync at a time and skips a
hash that this process has installed. `late` merges the statuses still to be
read from all dead connections.

Left out here, because `ConfigRollout` has it: the races of the connection
registry (`Connect` registers at once), the deletion of rows, the fan-out of a
bulk push. There is one package and one agent.

### AgentReports and the code

Processes are numbered as they start, and a number stands for the process's
`started_at` and for the random identity it may draw. `Start`, `CreateIdFile`
and `WriteIdFile` are `loadOrCreateInstanceUID`: the file is read, and if it
does not decode, or cannot be read although it is good (`ReadIdFails`), created
(and so truncated) and written, with a process end or a failed call between any
two. `Tick` is the check of `reportLoop` that hashes the file and compares with
`reported`; `UpdateEffective` is the client's second read of the file for the
message. `Receive` is the row's update together with the SELECT of
`recordStartedAt`, `WriteStartedAt` its INSERT, `SetEffective` the effective
hash; one goroutine per connection runs them in order.

History: `lapsed` (identities whose file was not written in full, or could not be
read by a later start), `counted`,
`overlap` (a connection began while an older one still had messages), `told`
and `returned` (the file came back to what the agent holds as reported although
the server had been told another content since).

Left out: an empty `fleet_instance_id_path`, which asks for a new identity on
every start; the flap window and `ConfigDrifted`, which are derived when a row
is read; the deletion of rows.

### LogBuffer, StatusExtension, Dashboard and the code

`LogBuffer`: `Lock`, `Put`, `Unlock` are one `push`, record by record; `Clear`
and `Snapshot` wait for the mutex. The refinement maps the abstract window to
the records the ring holds plus those the push at work has still to write: the
lock makes a reader see all or nothing of a batch.

`StatusExtension`: `Accept` and `Export` are the collector's pipelines
(external), with a topology as the config gives it. `Post`, `BeginIngest`,
`PutOne`, `EndIngest` and `PostTimeout` are a batch of the log buffer exporter on
its way; after a time-out the handler goes on, and its records enter the buffer
though they are counted as failed. `Scrape` and `ScrapeFails` are `GET /status`;
`computePipelineSnapshots` divides exactly, in fractions, and rounds as the code
does.

`Dashboard`: `Tick`, `Refused`, `Reply`, `GiveUp` are `run_app`'s poll and
`App::update`; `Type` and `Key` a `q` that waits in the terminal while a poll
blocks the loop. `Crash` and `Start` are the collector.

Simplifications: a scrape reads all counters at one instant; `consumeLogs` runs
one batch at a time; a graceful shutdown is covered by `Crash`; a scrape does
not return a wrong or truncated text (it comes from the same process).

### Forms, ConfigEditor and the code

`Forms` is `FormState`: `field_edit_state_from` (a value opened as widgets),
`to_value` (the widgets written back), `minimal_value`. Values are leaves tagged
with their YAML type. `ConfigEditor` has one action per key, or group of keys
that do the same, on each screen; `doc`, `disk`, `screen`, `dirty`, `quit`,
`help` are the fields of `App` and of `EditorDoc`. `SchemaRegistry` and
`SourceTemplates` hold the tables as they are in the source, with help texts and
regular expressions reduced to names.

Typing a whole name or text is one step to any of a small set of texts. Drawing
and YAML formatting are left out.

## 3. Runs

State counts are TLC's distinct states.

| Run | Instance | Checks |
|---|---|---|
| `rollout_fleet` | 2 agents, 3 connections; 1 request (push or bulk push) and 1 drop, or 2 requests to one agent with 2 handlers; 0.6 M | `TypeOK`, `ClaimsHonest`, `RestartDue`, `Routing`, `Provenance`: nothing crosses between agents, though connections are reused; two offers handled at once spoil no more than the file |
| `rollout_serial` | 1 agent, 2 connections, 2 request goroutines, 3 requests, 2 handlers, drop, crash, deleted row, `Serial`; 2.1 M | `LkgWasApplied`, `PendingWhileOutstanding`: with settled agents the rollback target did run there |
| `rollout_settles` | 1 agent, 2 connections, 1 request, drop, crash, server crash, `Serial`, `Graceful`, fairness; 59 k | `EventuallyReachable`, `OfferAnswered`, `RolloutSettles` |
| `apply_exclusive` | 2 handlers, 1 editor, 4 configs, 3 inodes, `Exclusive`; 21 k | `TypeOK`, `LiveIsValidated`, `NoStrayCandidate`, `ImplementsLiveFile`, across crashes and I/O errors |
| `packages` | 1 version, 2 builds of which one works, 2 uploads, 3 inodes, 3 pushes or rollbacks, 2 failures, `Serial`, `Graceful`, fairness; 1.0 M | `TypeOK`, `ServesRecorded`, `BinaryWasPublished`, `LkgWasInstalled`, `RunsItsBinary`, `OfferResolved` |
| `reports` | 2 contents, 2 connections, history of 1, 3 events, fairness; 1.1 M | `TypeOK`, `EnrolsOnce`, `RestartsCounted`, `EffectiveKnown` |
| `dashboard` | two topologies (below), capacity 2, 2 starts, 2 handlers, fairness; 70 k | `TypeOK`, `SharesAddUp`, `IdleShowsNothing`, `ImplementsLogWindow`, `NeverGoesBack`, `QuitHonoured`, `Recovers` |
| `editor_session` | few types, 2 receivers in 2 pipelines, 2 document changes, 1 edit, 2 operators; 1.9 M | `TypeOK`, `SelectionInRange`, `DirtyTracksDisk`, `TemplateNeverOverwrites`, `EditedOperatorInPlace`, `RemovalLeavesNoReference` |
| `editor_forms` | the whole registry and all templates, 1 change, 1 edit; 0.2 M | `TemplateReceiverReopens`, `ReviewCanGoBack`, `KnownFieldsSurvive` |
| `finding_*` | the smallest instance that shows it | section 5 |

Properties in words:

- `Routing`, `Provenance`: the registry, and a request holding a connection, use
  a connection of the right agent or a closed one; every config on the way to,
  recorded for or installed on an agent was asked for by an operator for it.
  An invalid config or a mixture gets into a file only from handlers that were in
  `validateAndApply` together.
- `ClaimsHonest`: APPLIED, in the client, in flight or being recorded, is about
  a config that replaced that agent's file, or that was in `validateAndApply`
  together with another one.
- `RestartDue`: an agent running something else than its file has its restart
  armed, or a handler about to arm it.
- `LkgWasApplied`: the rollback target did replace the agent's file once.
- `PendingWhileOutstanding`: before the first failure and the first deleted row,
  an offer in flight or being handled is pending on the server.
- `EventuallyReachable`: after the last failure the agent's live connection is
  the registered one, whatever old connections still deliver.
- `OfferAnswered`, `RolloutSettles`: while nothing fails, every offer handled is
  resolved in the row, and then agent and server agree or the server shows an
  error.
- `LiveIsValidated`, `ImplementsLiveFile`, `NoStrayCandidate`: a starting
  collector finds one whole config that its writer's validation let through, the
  file is replaced in one step, and a
  candidate without a writer means that a process died or the file system
  failed.
- `ServesRecorded`: what is served for a version is what its hash says, unless
  two uploads of it met or one was cut off, and a later upload repairs that.
- `BinaryWasPublished`: the agent's binary is the one it shipped with, or a
  whole build that was published and that runs, whatever uploads do during a
  download.
- `LkgWasInstalled`, `RunsItsBinary`, `OfferResolved`: the rollback target was
  installed on the agent; the binary in place ends up running; while nothing
  fails, an offer is answered, also one whose bytes were replaced meanwhile.
- `EnrolsOnce`: an identity the server knows is the one in the agent's file,
  unless the process that drew it could not write it there or a later one could
  not read it.
- `RestartsCounted`: without overlapping connections, the history is the starts
  that were reported, in order, without the first, cut to its limit.
- `EffectiveKnown`: unless connections overlapped or the file came back to what
  the agent last noted, the server comes to know the file's hash and keeps it.
- `SharesAddUp`, `IdleShowsNothing`: the shares add up to the counters but for
  rounding; an idle pipeline is given nothing of a shared exporter's traffic.
- `ImplementsLogWindow`: see `LogBuffer`. `NeverGoesBack`: no failed poll, late
  answer or restart replaces what is shown by less or older data.
  `QuitHonoured`, `Recovers`: `q` ends the program however slow the extension
  is; a collector that stays up is shown in the end.
- `TypeOK` of `ConfigEditor`: on every screen, what the code indexes, unwraps or
  looks up without a check is there. `SelectionInRange`, `DirtyTracksDisk`,
  `TemplateNeverOverwrites`, `EditedOperatorInPlace`,
  `RemovalLeavesNoReference`: cursors, the dirty flag, names and indices stay
  right over any two changes.
- `TemplateReceiverReopens`, `ReviewCanGoBack`, `KnownFieldsSurvive`: the
  template table and the schema table agree, and a registered field that was not
  edited and that its widget can show is written back as it was.

### Bounds, and why they are enough

*Config lane.* Every race involves at most two of something: two pushes (an
older answer against a newer pending config), two connections of one agent (late
messages and close of the old one), two goroutines of one agent. Two agents are
enough for a config to reach the wrong one; three connections for both to be
connected while an old connection has not been noticed. Three configs give an
installed one, another valid one, and an invalid one. `rollout_fleet` is two
instances in one, kept apart by `FleetBudget`, a CONSTRAINT of its cfg: with one
request, two agents, a lost connection and as many handlers as that request can
use, which is one each; with two requests, one agent, both handlers and no lost
connection. The processes still end at any time, by their own restarts. One
drop, crash, outage or delete is each enough to separate any two steps; their
combinations are split over the runs, since together they exceed what can be
enumerated in minutes. `MaxQueue` bounds the messages buffered on a connection:
with 1, a message can still be in `up` while another is being served, which is
what late delivery needs. A bound stops the environment only; no bound stops a
goroutine in progress. `Inodes`: each writer has one open at most, beside the
live file and the candidate; the instances have enough for an `open` to find a
free one.

*Packages.* Two uploads collide in every way over one version; a second version
adds no shared state. Three pushes allow an install, another one, and a rollback
to the first. Two failures separate any two steps, twice.

*Reports.* Three events allow a restart whose identity file is cut short, or
cannot be read, and another restart; a lost connection and a restart; two edits
around the two reads of the file. A history of one wraps at the second restart.

*Dashboard.* `Shared` has a dashboard, two pipelines over one receiver and one
exporter; `Logged` has no dashboard, two pipelines that share a receiver and the
log buffer exporter, and one with a receiver and an exporter to itself. A ring
of two and up to four records wrap it twice, also within one batch; two handlers
let an answer be late while the next poll is under way.

*Editor.* Two document changes let the second start from what the first left
(an item removed under the cursor, a template's receiver edited, its name
taken). The values are chosen so that every widget sees an absent, a plain and
an awkward value (a list text with a comma of its own, a string for a boolean).

### Symmetry

`rollout_serial` permutes connections, request slots and handlers,
`rollout_fleet` connections and agents; `None`, the configs and everything else
are told apart. Runs of liveness use no symmetry.

### Deadlock

Checked, except in `packages`, which has no periodic step and rests when all
uploads and pushes are used up; in the editor's runs, which end when the user
quits; and in `rollout_fleet`, where a collector whose file has become invalid
does not come up again and nobody is left to act.

### Fairness

- *Config lane*: weak fairness of each request's goroutine, each connection's
  goroutine, each offer's goroutine, of the client's reconnection (the SDK
  retries with backoff), its next message (`reportLoop`'s ticker), its receive
  loop, of the restart timer and of systemd's restart (`Restart=always`).
  `HandlerStep` includes `Reject`, so no fairness forces a valid config to be
  accepted.
- *Packages*: the same, and of the steps of the syncer. `Install` includes its
  failures, so no download is forced to succeed.
- *Reports*: of a process that comes up, the ticker, the client's next message
  and reconnection, and each connection's goroutine.
- *Dashboard*: weak fairness of systemd's restart, of ticks, and of the end of a
  poll after two seconds; strong fairness of reading a key, since `select!`
  picks among its ready branches at random, so that a waiting key is read though
  a tick may be ready every time. Of the environment: a scrape ends, and an
  extension that stays up answers in time again and again; without the latter
  nothing could be promised of `Recovers`.

Operators, users, cancelled requests and failures get none; failures are
bounded, which is the usual "eventually no more failures" of a liveness claim.

## 4. Proofs

Assumptions are the named `ASSUME`s of the modules: valid configs are configs,
`None` is none of the values it stands beside, bounds are naturals, modes are
Booleans. Sets of agents, configs, connections, requests, handlers, versions and
builds are arbitrary, infinite ones included; receivers and pipelines are
finitely many, as the shares are sums over them. Of the editor's tables
`RegistryAssumption` says that they are lists, not empty where the program takes
the first entry, that no table has a field twice, and that only a field called
`operators` is edited as a list of operators (`OPERATORS` in
`schema_registry.rs`); of the files it is started with `FilesAssumption` says
what YAML says: sections are finite maps, arrays are lists.
TLC evaluates all of them on the tables translated from the source.

Thirteen theorems carry a hypothesis in their statement. `Serial` (a push begins
when the agent is settled) stands before the four about rollback targets,
pending pushes and valid files, and cannot go: `finding_lkg_wrong` and
`finding_two_offers` show what two pushes in flight do. `Exclusive` stands
before three theorems of `ConfigApplyProofs`, and `finding_two_offers` is its
counterexample; `AgentsKeepItValid` also wants that nobody runs the editor,
which validates a copy (section 5). `BuildsLists` stands before two of
`ConfigEditorProofs`: whatever parameters it is given, a template builds its
`operators` as a list, as every build function of `templates.rs` does by writing
an array literal there. `SplitsToLists` stands before `RemovalCorrect`: a text
split at its commas gives a list of pieces, whatever the text (`split(',')` in
`field_edit_state_from`). These two are hypotheses and not `ASSUME`s because
they speak of all parameters and all texts, which TLC cannot enumerate.

The three theorems about reviewing a template's receiver speak of more of the
program's own data. `SplitsOnce` and `TypedWhole`: a piece of a text has no comma
left in it and is trimmed, so it is not split again, and what is typed into a list
field is held as such pieces (`split(',')`, `trim` in `field_edit_state_from`).
`BuildsAlike` stands before `ReviewCorrect`: a build function makes the same of a
missing parameter and of one at the default its form shows. It is an assumption on
the constant `Build`; `TheBuildsAlike` proves it of the build functions of the
source. `TheTables` says just that: the constants are the tables that
`SchemaRegistry` and `SourceTemplates` translate, which is what `editor_forms` gives
them. `PathsWhole` says that none of the ten paths `templates.rs` falls back to has
a comma in it.

`ConfigRolloutProofs`:

- `TypeCorrect`: `Spec => []TypeOK`. `TypeOK` alone is not inductive: `Lookup`
  reads `registry[req[r].at]`, which needs `at` to be an agent while `pc` is
  "lookup". `Typed` adds the three shapes: a request's fields by its `pc`
  (`RequestShape`), a handler's (`TaskShape`), and that a connection being
  served has an owner (`ServingShape`).
- `RoutingCorrect`: `Typed /\ Routing` is inductive. The heart is `Connect`,
  which reuses a closed connection: `Close` has taken it out of the registry and
  no request may hold it.
- `RestartCorrect`: `Apply` moves the file ahead of the process and leaves its
  handler about to report, `Report` hands the duty to the timer. A handler that
  writes through to the file arms nothing; `ExposedDue` says that while one may do
  so the restart that the renaming handler owes is still due. Both together with
  `Typed` are inductive (`RestartInv`).
- `Overlapping`, on which the next two rest, ties `near`, `exposed` and `mixed` to
  the handlers: any two that are inside `validateAndApply` are near each other, only
  such handlers are near or exposed, and `mixed` remembers their configs.
- `ClaimsCorrect`: `HonestInv` adds that a handler about to report success has
  installed its config or was mixed up with another (`HonestTasks`), that the
  agent's open connection is its
  own (`ConnOwned`), and that an idle goroutine holds no status
  (`IdleServesNothing`), so that a reused connection does not carry its previous
  owner's claims.
- `ProvenanceCorrect`: `ProvInv` adds that offers wait only on the connection
  their agent has open (`OffersWaitWhereOpen`), so that a connection is empty
  when it closes and when it is reused. The step lemma also needs `Routing` (the
  offer goes to the right connection) and `ConnOwned` (the agent reads its own).
- `WaitingKeepsFilesValid`, given `Serial`: `Lone` says that what is asked for an
  agent is asked by one request, on the wire once, or with one handler, and at one
  of these stages only. So no two handlers meet, nothing is ever mixed
  (`Untangled`), and by `ProvInv` what is in the file was validated. No loss, crash
  or deleted row disturbs this. The next two theorems use it: without it a success
  would not have to be about the config that is in the file.
- `RollbackCorrect`, given `Serial`: `LkgWasApplied` from `OneInv`. All that is
  asked for, offered to, worked on or claimed by an agent, and what it may still
  report, is one and the same config (`OnePush`); a success the client remembers
  belongs to a process about to restart (`SyncedDying`), so that a settled agent
  repeats no success on its next connection. Then the pending slot that a success
  promotes holds the config it is about, and that one was applied
  (`ClaimsHonest`).
- `PendingCorrect`, given `Serial`: `PlacesInv` says that before any failure a
  push is in exactly one place, request, wire, handler or status, and that the
  row is pending from the moment the request has recorded it. The first loss,
  crash or deleted row ends it (`Undisturbed`): a push may then be answered
  twice, or answered into an empty row.

`ConfigApplyProofs`:

- `TypeCorrect` and `NoCandidateLeft` for either mode; the latter from
  `CandidateOwed`: a candidate that exists is owed its rename or removal by a
  writer at work, or something was interrupted.
- `LiveAlwaysValidated`, `AgentsKeepItValid` and `TakingTurnsRefines` under
  `Exclusive = TRUE`. The
  inductive invariant `IInv` says that at most one writer is at work, that the
  candidate is another inode than the live file, that an open candidate is still
  empty, and that what a writer has accepted was vetted and is what it is about to
  install. `AgentsKeepItValid` is the same fact where all writers are agents, whose
  validation reads the very bytes they install.
- `TakingTurnsRefines` maps `file` to `data[live]` and `accepted` to itself:
  initial states map to initial states, `CheckPrivately` or `Validate` to
  `Accept`, `RenameTmp` to `Install`, failures to `GiveUp`, and the rest to
  stuttering.

`PackageStoreProofs` and `PackageRolloutProofs`:

- `StoreInv` is inductive for the uploads by themselves: types (`StoreTyped`);
  versions share no file, and a candidate is not the file it replaces (`Apart`);
  an upload that has met no other of its version finds what it wrote, first under
  the temporary name, then under the final one (`AloneIsWhole`); and unless an
  upload is about to record its hash, a version that is not suspect serves what
  its hash says and nobody is writing it (`QuietServes`). The lane
  leaves the store's variables alone or runs one of its actions, hence
  `ServesAlways`.
- `TypeCorrect` from `Typed`: `StoreInv`, the lane's types, and the fields of a
  request and of a sync by their `pc` (`WorkShape`).
- `BinaryPublished` from `BinInv`: every hash in the table was published
  (`TableReleased`), and so was every hash that a row, a request, an offer or a
  sync carries, and the build in place (`Carries`); what
  is swapped in has passed the comparison with such a hash and `--version`. It
  needs no assumption on the uploads: collisions
  only make downloads fail.
- `RollbackCorrect`, given `Serial`: `LkgWasInstalled` from `LkgInv`. There is one
  package that everything on its way is about, and as long as it was not
  installed nobody says it was (`OnePackage`, `Unclaimed`); a process that
  reported a success, or is about to, will restart (`SuccessRestarts`).

`AgentReportsProofs`:

- `TypeCorrect` from the shapes of agent, wire and server, among them that the
  history keeps its limit.
- `IdentityKept` from `IdentityInv`: the identity file is replaced only while it
  does not decode or could not be read, and a process that is up uses the
  identity in it or a lapsed one (`Drawing`); messages and handlers carry such
  identities only (`WireEnrolled`, `HandlersEnrolled`).
- `RestartsCorrect` from `OrderInv`: until connections overlap, one connection at
  most has messages or a handler (`Alone`), and along the way from the wire by
  the handlers to the rows start times only grow (`WireOrdered`,
  `HandlersOrdered`, `RowsOrdered`). A start is therefore counted once, at the
  end of the history; `OneMoreStart` is the lemma that appending and cutting to
  the limit keeps "the last ones, in order".

`ConfigEditorProofs`, for any tables, files and names (the last two of its
theorems for the tables of the source):

- `DirtyCorrect`: `DirtyTracksDisk` is inductive by itself. Every key that
  changes the document sets `dirty`, and only a save that wrote this document
  clears it.
- `TypeCorrect` from `Typed`: the shape of every screen (which fields it has, and
  that what it indexes is there), that what is to be removed is still in the
  document, and that a screen which will write has a change left.
- `TemplateCorrect`: with `Typed`, `TemplateNeverOverwrites` is inductive: the
  document does not change while a template's screens are open, and they hand
  the name on.
- `SelectionCorrect` and `InPlaceCorrect`, given `BuildsLists`, from `Inv`: `Typed`;
  that what the document, the form under edit or a template's receiver holds
  under `operators` is a list, in sections that are finite (`Listed`); and the two
  properties themselves. Finiteness and lists are what cursors need: after a
  removal the cursor is compared with the number of rows that are left, and an
  operator form opened at `i` is still about the `i`-th operator when it is
  submitted, since only that form writes to the list meanwhile.
- `FieldsSurvive`: with `Typed`, `Pristine` is inductive: of a component that is
  in the document, each field of its form that was not touched still is what
  `field_edit_state_from` makes of the document's value. `ComponentStep` says
  that the form goes through every screen it is edited behind unchanged but for
  such fields; `RoundTrip` that writing a widget back gives the leaf it was
  opened with, kind by kind, for every leaf that `Ordinary` says the widget can
  show; that no table has a key twice makes it this field that is written there.
- `RemovalCorrect`, given `SplitsToLists`, from `References`: the arrays of
  pipelines, in the document and in the form of one, are lists
  (`PipelinesListed`, `PipelineOnScreen`). A component is removed at once only if
  no pipeline refers to it; else `StrippedPipeline` says that nothing of it is
  left in any.
- The last two rest on what filtering and splitting a list computes. `Others` and
  `PiecesOf` are written with `FlattenSeq`, which is a recursive function;
  `Flattening` says what its values are, and `CountUp`, from the well-foundedness
  of the naturals, takes the place of an induction over the list
  (`FlattenedIn`, `FlattenedOnes`, `OthersListed`, `OthersSame`, `PiecesSame`).
- `ReviewCorrect`, given `BuildsAlike`, `SplitsOnce` and `TypedWhole`, from
  `Reviewed`: what is reviewed was built from the value of a form of the template's
  parameters whose lists hold whole pieces (`ParamsForm`, `WholeForm`). Opened
  again, that value is written as it was, but for text fields that were left blank
  and now hold their default (`OpenedAgain`, from `RoundTrip` and
  `WrittenOrdinary`), and `BuildsAlike` makes the same receiver of both.
- `TemplatesGoBack` is that for the source's own tables, and `TemplatesReopen`, from
  the same invariant, the other half: every key of the receiver that is reviewed is
  a field of its type's form, of a kind that can show the leaf, and so is every key
  of every operator of its chain. `ReopensKeys` reduces "the form gives back the
  value" to that, key by key; `OpFits` is it for an operator, one lemma for each
  parser the templates use; `SyslogFine`, `ParsedFine`, `TypedFine` and
  `ActiveDirectoryFine` are the four shapes of a template, and `AllFine` collects
  the eighteen. The invariant is needed: of parameters no form can write (a blank
  address, say) a template builds a receiver that does not reopen.

`LogBufferProofs` and `DashboardProofs`:

- `RingAlways` and `RingIsWindow`: the ring refines `LogWindow` for any
  capacity. `PutOwed` is the lemma that one step of the push loop leaves the
  owed window as it is, whether or not the ring wraps or was full.
- `ServesWindow`: the refinement again, of the whole program under crashes and
  restarts (a restart is a `Clear`).
- `NeverBack`: `IInv` says that a snapshot in a handler holds no more than the
  counters (`HandlersOK`), that the one on the screen is of an earlier process or
  does likewise (`ScreenOK`), and that an answer being awaited is no older than
  what is shown (`AwaitedOK`).
- `TypeCorrect` from `CountInv`: what an exporter counted as sent or failed, and
  what its POST under way will be counted for, has reached it (`Counted`, a sum
  over the topology), and the POST it waits for exists (`Posted`).
- `IdleCorrect`: for any topology, a pipeline without traffic is attributed
  nothing.
- `SharesCorrect`: for any topology and any counters the shares add up to what
  the exporters counted but for half a record of rounding each. The lemmas
  before it say what the model's sums over finite sets are: they do not depend
  on the order of their elements (`AnyElement`), grow by one element
  (`PlusByElements`) and split along a partition (`PlusByParts`). The uses of an
  exporter then weigh 1 together (`FractionSum`, over the common denominator of
  `CommonMultiple`), and rounding adds at most its half (`RoundedSum`).

Only model-checked:

- All liveness properties (`EventuallyReachable`, `OfferAnswered`,
  `RolloutSettles`, `RunsItsBinary`, `OfferResolved`, `EffectiveKnown`,
  `QuitHonoured`, `Recovers`): they rest on fairness and `ENABLED`, which are
  beyond the prover.

## 5. Where code and words disagree

Each is a `violation` run: TLC's trace is what the code does, the property what a
comment or README says.

1. **`finding_lkg_wrong`.** `promoteToLastKnownGood` (`store.go:408`) does not
   compare the reported hash with the pending one. Two pushes in flight: the
   answer to the first makes the second, which never ran, the rollback target.
2. **`finding_two_offers`.** Two offers share `config.yaml.tmp`; one installs
   what the other has just truncated or is writing.
3. **`finding_untouched`.** Opening a component in the editor and submitting it
   unedited changes it: a pattern with a comma of its own is split, defaults are
   added, blank strings and keys the registry does not know are dropped.

`rollout_serial` shows that 1 needs overlapping pushes; `apply_exclusive` that 2
needs two writers, and `rollout_fleet` what holds in spite of it;
`KnownFieldsSurvive` what is left of 3.

Reachable in the same models, with no run of their own:

- Pushing a config again that the agent has just rejected produces an identical
  status, which the client does not send: the push stays pending. This is why
  `rollout_settles` allows one push only. Pushing a package whose hash this
  process has already installed is skipped, and stays pending likewise.
- On reconnection the client repeats its last status; a repeated APPLIED
  promotes an empty pending slot, and the rollback target is gone.
- The answer to an earlier push clears a later one that is still on its way
  (`PendingWhileOutstanding` under the constants of `finding_lkg_wrong`), which
  `store.go:35` calls outstanding.
- The editor validates a copy of the document with `placeholder-value` for every
  `${...}` string (`model.rs:106`) and saves the document, which the collector may
  reject (`LiveIsValid` under the constants of `apply_exclusive`): that a save
  "never overwrites the good file on disk with an invalid one" (`model.rs:143`) is
  true of the copy only.
- A start that fails to read a good identity file (`opamp.go:668`) goes on to
  overwrite it (`ReadIdFails`, then `CreateIdFile`): the fresh identity is not "for
  this run only" (`opamp.go:660`), and the agent is enrolled anew.
- A rollback reads its target before it is recorded; an answer handled in between
  makes the target an older one.
- The restart timer may fire before the APPLIED status has left the process
  (`Graceful = FALSE`), and nothing sends it again: the push stays pending.
- A push recorded just before a server crash was never sent, and stays pending.
- A bulk push that fails for one target has been sent to others.
- Two uploads of a version that meet, or one that is cut off between its rename and
  its record, leave a file that is not what the recorded hash says (`suspect`): no
  agent installs it, since the hash does not match, until a lone upload repairs it.
- A message buffered on a dead connection puts that connection back in the
  registry in the live one's place, until the agent's next message;
  `EventuallyReachable` shows that this heals.
- The editor shares `config.yaml.tmp` with the agent (`finding_two_offers` with
  `Handlers = {h1}` and `Editors = {e1}`).
- After a second upload of a version, a rollback to its first build offers a
  hash that the file no longer has: it fails, and is reported as failed.
- The drift report can stay wrong for good: if the file changes between the hash
  and the second read (or a reconnection tells its content), the agent holds
  another content as reported than the server was told; if the file then comes
  back to it, nothing is reported (`returned`).
- A message of an old connection handled after a new one began can count a
  restart twice, lose one, or put back an older config hash (`overlap`).
- Editor: a component whose type is not registered opens as the first type of
  its category; `q` and Esc quit with unsaved changes; a save overwrites a config
  that the agent replaced meanwhile; an enum value that is not an option becomes
  the first; deleting an extension does not look at `storage:` references.
- Dashboard: a pipeline's `events_out` may go down when shares shift, since they
  are computed from the traffic so far.

## 6. Not modelled, and why

- *Opening the store, migrations*: statements that may each be run again
  (`IF NOT EXISTS`, a tolerated "duplicate column name") and are, on every start;
  there is no state but the prefix that has run.
- *Topology and resolved config*: a pure translation of a YAML document into JSON
  for display; `StatusExtension` starts from its result.
- *The text format of the scrape* (`promscrape.go`), the JSON of a log record,
  YAML formatting, help texts: layout.
- *Drawing* (`ui.rs` of both terminal programs), *web UIs, installer*: no state
  of their own.
- *Descriptions, health, tags and the stored snapshot* in the inventory:
  overwritten by the last message, read by nobody but the UI. The flap window and
  the drift flag are derived when a row is read.
- *The `record_*` counters of `sg-core`*: no program of the repository calls
  them.
- *Both lanes on one agent*: a build is run with `--version` only, which never
  reads the config, so the code promises nothing about a build and a config
  together that the two lanes do not promise one by one.
- *Authentication*: tokens and TLS decide who may connect, not what happens then.
