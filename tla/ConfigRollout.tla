--------------------------- MODULE ConfigRollout ---------------------------
(***************************************************************************)
(* The config lane of the fleet: an operator's request to the fleet        *)
(* server's REST API becomes a pending config in the agent's inventory     *)
(* row, an OpAMP RemoteConfig offer on the agent's connection, a           *)
(* validated replacement of the agent's config file, a status report back  *)
(* to the server, and a restart of the agent into the new config.          *)
(*                                                                         *)
(* Interleaved actors: one goroutine per REST request, one per OpAMP       *)
(* connection on the server, and on each agent one goroutine per received  *)
(* offer beside the SDK's sender.  A step is one SQL statement, one        *)
(* critical section of the connection registry, one message handed to or   *)
(* taken from the transport, or one atomic file replacement.               *)
(*                                                                         *)
(* Simplifications:                                                        *)
(*  - a config stands for its text and for the SHA-256 of its text; the    *)
(*    code always writes the two columns together;                         *)
(*  - validateAndApply takes effect in one step; what the handlers of one  *)
(*    agent do to each other's candidate file in the meantime is kept in    *)
(*    near and exposed; ConfigApply opens the file operations up;           *)
(*  - an AgentToServer message carries only what this lane reads: that it  *)
(*    came from the agent, and its RemoteConfigStatus if it has one;       *)
(*  - the server's reply to a message carries no offer and is left out.    *)
(***************************************************************************)
EXTENDS Naturals, Sequences

CONSTANTS
  Agents,            \* OpAMP instance ids
  Configs,           \* config texts an operator may push
  Valid,             \* those the agent's `validate` subcommand accepts
  InitialConfig,     \* the config installed on every agent
  Conns,             \* websocket connections (reused once forgotten)
  Requests,          \* REST requests the server handles at the same time
  Handlers,          \* handleRemoteConfig goroutines of one agent
  Torn,              \* content of a file two handlers wrote into at once
  None,              \* empty column, missing map entry, absent field
  Serial,            \* TRUE: operators wait until an agent has settled
  Graceful,          \* TRUE: restartDelay suffices to deliver the last status
  MaxRequests,       \* bound: requests started
  MaxDrops,          \* bound: connections lost by the network
  MaxCrashes,        \* bound: agent crashes
  MaxServerCrashes,  \* bound: fleet server crashes
  MaxDeletes,        \* bound: inventory rows deleted
  MaxQueue           \* bound: agent messages in flight on a connection

ASSUME ConfigAssumption ==
  /\ Valid \subseteq Configs
  /\ InitialConfig \in Valid
  /\ None \notin Configs \union Conns \union Agents
  /\ None \notin [ok : BOOLEAN, cfg : Configs]
  /\ Torn \notin Configs \union {None}

ASSUME ModeAssumption == Serial \in BOOLEAN /\ Graceful \in BOOLEAN

ASSUME BoundAssumption ==
  /\ MaxRequests \in Nat /\ MaxDrops \in Nat /\ MaxCrashes \in Nat
  /\ MaxServerCrashes \in Nat /\ MaxDeletes \in Nat /\ MaxQueue \in Nat

VARIABLES
  row,       \* row[a]: the agent's line of the `agents` table
  registry,  \* registry[a]: connRegistry.byID
  owner,     \* owner[c]: agent at the other end, None once OnConnectionClose ran
  serving,   \* serving[c]: the OnMessage call in progress on the connection
  req,       \* req[r]: the REST request in progress
  up,        \* up[c]: statuses carried by the agent's messages in flight
  down,      \* down[c]: offers in flight to the agent
  conn,      \* conn[a]: the connection the agent has open
  live,      \* live[a]: content of the agent's config file
  running,   \* running[a]: config the process loaded, None while it is down
  task,      \* task[a][h]: a handleRemoteConfig goroutine
  near,      \* near[a][h]: configs others applied while h was at it
  exposed,   \* exposed[a]: handlers whose open candidate is the file now
  synced,    \* synced[a]: last RemoteConfigStatus, kept by the OpAMP client
  out,       \* out[a]: status in the client's next message
  dying,     \* dying[a]: the restart timer is armed
  offered,   \* history: configs operators asked for, per agent
  applied,   \* history: configs that replaced the agent's file
  mixed,     \* history: configs applied while another one was
  used       \* how much of each bound is used up

store  == <<row>>
server == <<registry, owner, serving>>
wire   == <<up, down>>
agent  == <<conn, live, running, task, near, exposed, synced, out, dying>>
vars   == <<row, registry, owner, serving, req, up, down, conn, live, running,
            task, near, exposed, synced, out, dying, offered, applied, mixed,
            used>>

-----------------------------------------------------------------------------
(* Types and idle values.                                                  *)

Status  == [ok : BOOLEAN, cfg : Configs]
Maybe(S) == S \union {None}

Row     == [exists : BOOLEAN, pending : Maybe(Configs), lkg : Maybe(Configs),
            err : BOOLEAN]
NoRow   == [exists |-> FALSE, pending |-> None, lkg |-> None, err |-> FALSE]

Serving == [pc : {"idle", "touch", "status"}, msg : Maybe(Status)]
NotServing == [pc |-> "idle", msg |-> None]

Request == [pc : {"idle", "record", "lookup", "send"}, cfg : Maybe(Configs),
            todo : SUBSET Agents, at : Maybe(Agents), conn : Maybe(Conns)]
NoRequest == [pc |-> "idle", cfg |-> None, todo |-> {}, at |-> None,
              conn |-> None]

Task    == [pc : {"idle", "apply", "report"}, cfg : Maybe(Configs),
            ok : BOOLEAN]
NoTask  == [pc |-> "idle", cfg |-> None, ok |-> FALSE]

Counter == [requests : Nat, drops : Nat, crashes : Nat, outages : Nat,
            deletes : Nat]

Init ==
  /\ row = [a \in Agents |-> NoRow]
  /\ registry = [a \in Agents |-> None]
  /\ owner = [c \in Conns |-> None]
  /\ serving = [c \in Conns |-> NotServing]
  /\ req = [r \in Requests |-> NoRequest]
  /\ up = [c \in Conns |-> << >>]
  /\ down = [c \in Conns |-> << >>]
  /\ conn = [a \in Agents |-> None]
  /\ live = [a \in Agents |-> InitialConfig]
  /\ running = [a \in Agents |-> InitialConfig]
  /\ task = [a \in Agents |-> [h \in Handlers |-> NoTask]]
  /\ near = [a \in Agents |-> [h \in Handlers |-> {}]]
  /\ exposed = [a \in Agents |-> {}]
  /\ synced = [a \in Agents |-> None]
  /\ out = [a \in Agents |-> None]
  /\ dying = [a \in Agents |-> FALSE]
  /\ offered = [a \in Agents |-> {}]
  /\ applied = [a \in Agents |-> {}]
  /\ mixed = [a \in Agents |-> {}]
  /\ used = [requests |-> 0, drops |-> 0, crashes |-> 0, outages |-> 0,
             deletes |-> 0]

-----------------------------------------------------------------------------
(* REST requests.  A single push, a rollback and a bulk push run the same   *)
(* pushConfigToAgent sequence per target: record as pending, look the       *)
(* connection up, send.                                                     *)

\* Nothing of an earlier push of a is still on its way anywhere.
Settled(a) ==
  /\ row[a].pending = None
  /\ \A r \in Requests : a \notin req[r].todo \union {req[r].at}
  /\ \A c \in Conns : owner[c] = a =>
       /\ down[c] = << >>
       /\ \A i \in 1..Len(up[c]) : up[c][i] = None
       /\ serving[c].msg = None
  /\ \A h \in Handlers : task[a][h].pc = "idle"
  /\ out[a] = None
  /\ running[a] = live[a] /\ ~ dying[a]

Begin(r, targets, cfg) ==
  /\ req[r].pc = "idle"
  /\ used.requests < MaxRequests
  /\ Serial => \A a \in targets : Settled(a)
  /\ req' = [req EXCEPT ![r] = [pc |-> "record", cfg |-> cfg,
                                todo |-> targets, at |-> None, conn |-> None]]
  /\ offered' = [a \in Agents |->
                   offered[a] \union (IF a \in targets THEN {cfg} ELSE {})]
  /\ used' = [used EXCEPT !.requests = @ + 1]
  /\ UNCHANGED <<store, server, wire, agent, applied, mixed>>

\* handlePushConfig: any id, known to the store or not.
Push(r, a) == \E cfg \in Configs : Begin(r, {a}, cfg)

\* handleBulkPushConfig: the rows carrying the tag when listAgents ran.
BulkPush(r) ==
  \E targets \in (SUBSET {a \in Agents : row[a].exists}) \ {{}},
     cfg \in Configs : Begin(r, targets, cfg)

\* handleRollback: the last-known-good config read here is sent later.
Rollback(r, a) == row[a].lkg # None /\ Begin(r, {a}, row[a].lkg)

NextTarget(r, rest) ==
  IF rest = {} THEN NoRequest
  ELSE [pc |-> "record", cfg |-> req[r].cfg, todo |-> rest,
        at |-> None, conn |-> None]

\* setPendingConfig creates the row if the agent was never heard of.
BugWithPending(r, cfg) == IF r.exists THEN [r EXCEPT !.pending = cfg] ELSE r
WithPending(r, cfg) == [r EXCEPT !.exists = TRUE, !.pending = cfg]

RecordPending(r) ==
  \E a \in req[r].todo :
    /\ req[r].pc = "record"
    /\ row' = [row EXCEPT ![a] = WithPending(@, req[r].cfg)]
    /\ req' = [req EXCEPT ![r].pc = "lookup", ![r].todo = @ \ {a},
                          ![r].at = a]
    /\ UNCHANGED <<server, wire, agent, offered, applied, mixed, used>>

\* setPendingConfig fails (the request's context is cancelled, the database
\* refuses): nothing is sent to this target, and the loop goes on.
RecordFails(r) ==
  \E a \in req[r].todo :
    /\ req[r].pc = "record"
    /\ req' = [req EXCEPT ![r] = NextTarget(r, req[r].todo \ {a})]
    /\ UNCHANGED <<store, server, wire, agent, offered, applied, mixed, used>>

\* registry.get; an agent that is not connected keeps the push pending.
Lookup(r) ==
  /\ req[r].pc = "lookup"
  /\ LET c == registry[req[r].at] IN
       req' = [req EXCEPT ![r] = IF c = None
                                 THEN NextTarget(r, req[r].todo)
                                 ELSE [@ EXCEPT !.pc = "send", !.conn = c]]
  /\ UNCHANGED <<store, server, wire, agent, offered, applied, mixed, used>>

\* conn.Send: the offer reaches the agent only if the connection is still
\* open at the other end; a dead one swallows it or returns an error.
Send(r) ==
  /\ req[r].pc = "send"
  /\ LET c == req[r].conn IN
       down' = [down EXCEPT ![c] =
                  IF owner[c] # None /\ conn[owner[c]] = c
                  THEN Append(@, req[r].cfg) ELSE @]
  /\ req' = [req EXCEPT ![r] = NextTarget(r, req[r].todo)]
  /\ UNCHANGED <<store, server, up, agent, offered, applied, mixed, used>>

\* handleDeleteAgent: the row only, never the connection.
DeleteAgent(a) ==
  /\ row[a].exists
  /\ used.deletes < MaxDeletes
  /\ row' = [row EXCEPT ![a] = NoRow]
  /\ used' = [used EXCEPT !.deletes = @ + 1]
  /\ UNCHANGED <<server, req, wire, agent, offered, applied, mixed>>

-----------------------------------------------------------------------------
(* The server's per-connection goroutine: OnMessage, statement by           *)
(* statement, and OnConnectionClose.                                        *)

\* register: this connection takes the agent's place in the map.
BugRegistered(c) ==
  IF Head(up[c]) = None THEN registry ELSE [registry EXCEPT ![owner[c]] = c]
Registered(c) == [registry EXCEPT ![owner[c]] = c]

Register(c) ==
  /\ owner[c] # None
  /\ serving[c].pc = "idle"
  /\ up[c] # << >>
  /\ registry' = Registered(c)
  /\ serving' = [serving EXCEPT ![c] = [pc |-> "touch", msg |-> Head(up[c])]]
  /\ up' = [up EXCEPT ![c] = Tail(@)]
  /\ UNCHANGED <<store, owner, req, down, agent, offered, applied, mixed,
                 used>>

\* upsertAgentDescription or touchLastSeen: either creates the row.
TouchRow(c) ==
  /\ serving[c].pc = "touch"
  /\ row' = [row EXCEPT ![owner[c]].exists = TRUE]
  /\ serving' = [serving EXCEPT ![c] = IF serving[c].msg = None THEN NotServing
                                       ELSE [@ EXCEPT !.pc = "status"]]
  /\ UNCHANGED <<registry, owner, req, wire, agent, offered, applied, mixed,
                 used>>

\* setHealth and setSnapshot, for a message that carries more than a status:
\* either creates the row again if it was deleted in the meantime.
Recreate(c) ==
  /\ serving[c].pc = "status"
  /\ ~ row[owner[c]].exists
  /\ row' = [row EXCEPT ![owner[c]].exists = TRUE]
  /\ UNCHANGED <<server, req, wire, agent, offered, applied, mixed, used>>

\* promoteToLastKnownGood: whatever is pending now, whichever config the
\* agent says it applied.
BugPromoted(r) == [r EXCEPT !.pending = None, !.err = FALSE]
Promoted(r) == [r EXCEPT !.lkg = r.pending, !.pending = None, !.err = FALSE]

\* recordConfigFailure: whatever is pending now is discarded.
BugFailedPromotes(r) == [r EXCEPT !.lkg = r.pending, !.pending = None,
                                  !.err = TRUE]
BugFailedKeeps(r) == [r EXCEPT !.err = TRUE]
Failed(r) == [r EXCEPT !.pending = None, !.err = TRUE]

\* Both are UPDATE ... WHERE id: no row, no effect.
RecordStatus(c) ==
  /\ serving[c].pc = "status"
  /\ row' = [row EXCEPT ![owner[c]] =
               IF ~ @.exists THEN @
               ELSE IF serving[c].msg.ok THEN Promoted(@) ELSE Failed(@)]
  /\ serving' = [serving EXCEPT ![c] = NotServing]
  /\ UNCHANGED <<registry, owner, req, wire, agent, offered, applied, mixed,
                 used>>

\* unregister: drop the id that maps to this very connection, if any.
BugUnregisteredNone(c) == registry
BugUnregisteredAll(c) ==
  [a \in {b \in Agents : registry[b] # c} |-> registry[a]]
Unregistered(c) ==
  [a \in Agents |-> IF registry[a] = c THEN None ELSE registry[a]]

\* The read loop ends when the agent's end is gone; messages still buffered
\* may be lost with it.
Close(c) ==
  /\ owner[c] # None
  /\ conn[owner[c]] # c
  /\ serving[c].pc = "idle"
  /\ Graceful => up[c] = << >>
  /\ registry' = Unregistered(c)
  /\ owner' = [owner EXCEPT ![c] = None]
  /\ up' = [up EXCEPT ![c] = << >>]
  /\ UNCHANGED <<store, serving, req, down, agent, offered, applied, mixed,
                 used>>

\* The server process dies and comes back: the table survives, the registry,
\* the requests and every connection do not.
ServerCrash ==
  /\ used.outages < MaxServerCrashes
  /\ registry' = [a \in Agents |-> None]
  /\ owner' = [c \in Conns |-> None]
  /\ serving' = [c \in Conns |-> NotServing]
  /\ req' = [r \in Requests |-> NoRequest]
  /\ up' = [c \in Conns |-> << >>]
  /\ down' = [c \in Conns |-> << >>]
  /\ conn' = [a \in Agents |-> None]
  /\ used' = [used EXCEPT !.outages = @ + 1]
  /\ UNCHANGED <<store, live, running, task, near, exposed, synced, out,
                 dying, offered, applied, mixed>>

-----------------------------------------------------------------------------
(* The agent: the OpAMP client, the offer handlers and the process.         *)

\* The first message on a connection repeats the last status of this process.
Connect(a, c) ==
  /\ conn[a] = None /\ running[a] # None
  /\ owner[c] = None
  /\ \A r \in Requests : req[r].conn # c
  /\ conn' = [conn EXCEPT ![a] = c]
  /\ owner' = [owner EXCEPT ![c] = a]
  /\ up' = [up EXCEPT ![c] = <<synced[a]>>]
  /\ out' = [out EXCEPT ![a] = None]
  /\ UNCHANGED <<store, registry, serving, req, down, live, running, task,
                 near, exposed, synced, dying, offered, applied, mixed, used>>

\* reportLoop has the client send a message every reportInterval, with or
\* without a status.
MaySend(a) == conn[a] # None /\ Len(up[conn[a]]) < MaxQueue

\* The client's next message: the status if one was set since the last one.
SendNext(a) ==
  /\ MaySend(a)
  /\ up' = [up EXCEPT ![conn[a]] = Append(@, out[a])]
  /\ out' = [out EXCEPT ![a] = None]
  /\ UNCHANGED <<store, server, req, down, conn, live, running, task, near,
                 exposed, synced, dying, offered, applied, mixed, used>>

Disconnected(a) ==
  /\ conn' = [conn EXCEPT ![a] = None]
  /\ down' = [c \in Conns |-> IF c = conn[a] THEN << >> ELSE down[c]]

\* The network loses the connection; the server has yet to notice.
Drop(a) ==
  /\ conn[a] # None
  /\ used.drops < MaxDrops
  /\ Disconnected(a)
  /\ used' = [used EXCEPT !.drops = @ + 1]
  /\ UNCHANGED <<store, server, req, up, live, running, task, near, exposed,
                 synced, out, dying, offered, applied, mixed>>

\* The handlers inside validateAndApply.  They write, validate and rename one
\* candidate file, so each may validate and rename what another one wrote.
Applying(a) == {h \in Handlers : task[a][h].pc = "apply"}

\* OnMessage starts a goroutine per RemoteConfig and returns.
Receive(a, h) ==
  LET c      == Head(down[conn[a]])
      others == {task[a][g].cfg : g \in Applying(a)} IN
  /\ conn[a] # None
  /\ down[conn[a]] # << >>
  /\ task[a][h].pc = "idle"
  /\ task' = [task EXCEPT ![a][h] = [pc |-> "apply", ok |-> FALSE, cfg |-> c]]
  /\ near' = [near EXCEPT ![a] = [g \in Handlers |->
                IF g = h THEN others
                ELSE near[a][g] \union (IF g \in Applying(a) THEN {c} ELSE {})]]
  /\ mixed' = [mixed EXCEPT ![a] =
                 @ \union (IF others = {} THEN {} ELSE others \union {c})]
  /\ down' = [down EXCEPT ![conn[a]] = Tail(@)]
  /\ UNCHANGED <<store, server, req, up, conn, live, running, exposed, synced,
                 out, dying, offered, applied, used>>

\* The result of validateAndApply, kept for the report.
BugReturned(a, h, ok) ==
  [task EXCEPT ![a][h].pc = "report", ![a][h].ok = TRUE]
Returned(a, h, ok) == [task EXCEPT ![a][h].pc = "report", ![a][h].ok = ok]

\* What h may rename: the config it validated or, when others were at work
\* on the candidate too, whatever they left there after any validation.
BugRenamed(a, h) == {task[a][h].cfg} \union near[a][h]
Renamed(a, h) ==
  IF near[a][h] = {} THEN {task[a][h].cfg} \intersect Valid
  ELSE {task[a][h].cfg, Torn} \union near[a][h]

Replaces(a, x) ==
  /\ live' = [live EXCEPT ![a] = x]
  /\ applied' = [applied EXCEPT ![a] = @ \union ({x} \ {Torn})]

\* validateAndApply succeeds.  Who has the renamed candidate open now has the
\* agent's config file open.
Apply(a, h) ==
  /\ task[a][h].pc = "apply"
  /\ \E x \in Renamed(a, h) : Replaces(a, x)
  /\ task' = Returned(a, h, TRUE)
  /\ near' = [near EXCEPT ![a][h] = {}]
  /\ exposed' = [exposed EXCEPT ![a] = Applying(a) \ {h}]
  /\ UNCHANGED <<store, server, req, wire, conn, running, synced, out,
                 dying, offered, mixed, used>>

\* writeFileSynced of a handler whose candidate another one renamed.
WriteThrough(a, h) ==
  /\ task[a][h].pc = "apply"
  /\ h \in exposed[a]
  /\ \E x \in {task[a][h].cfg, Torn} : Replaces(a, x)
  /\ UNCHANGED <<store, server, req, wire, conn, running, task, near, exposed,
                 synced, out, dying, offered, mixed, used>>

\* It fails: an invalid config, an I/O error, or the validator timing out.
Reject(a, h) ==
  /\ task[a][h].pc = "apply"
  /\ task' = Returned(a, h, FALSE)
  /\ near' = [near EXCEPT ![a][h] = {}]
  /\ exposed' = [exposed EXCEPT ![a] = @ \ {h}]
  /\ UNCHANGED <<store, server, req, wire, conn, live, running, synced, out,
                 dying, offered, applied, mixed, used>>

\* reportConfigStatus.  The client sends a status only if it differs from the
\* last one; a second failure of the same config may or may not be explained
\* in the words of the first.
ReportStatus(a, s) ==
  /\ synced' = [synced EXCEPT ![a] = s]
  /\ \/ /\ synced[a] # s \/ ~ s.ok
        /\ out' = [out EXCEPT ![a] = s]
     \/ synced[a] = s /\ UNCHANGED out

\* The AfterFunc that ends handleRemoteConfig on the success path.
BugArmsRestart(a, h) == task[a][h].ok /\ conn[a] # None
ArmsRestart(a, h) == task[a][h].ok

Report(a, h) ==
  /\ task[a][h].pc = "report"
  /\ ReportStatus(a, [ok |-> task[a][h].ok, cfg |-> task[a][h].cfg])
  /\ dying' = [dying EXCEPT ![a] = @ \/ ArmsRestart(a, h)]
  /\ task' = [task EXCEPT ![a][h] = NoTask]
  /\ UNCHANGED <<store, server, req, wire, conn, live, running, near, exposed,
                 offered, applied, mixed, used>>

\* The process ends: goroutines, timer, client state and connection with it.
Stopped(a) ==
  /\ running' = [running EXCEPT ![a] = None]
  /\ task' = [task EXCEPT ![a] = [h \in Handlers |-> NoTask]]
  /\ near' = [near EXCEPT ![a] = [h \in Handlers |-> {}]]
  /\ exposed' = [exposed EXCEPT ![a] = {}]
  /\ synced' = [synced EXCEPT ![a] = None]
  /\ out' = [out EXCEPT ![a] = None]
  /\ dying' = [dying EXCEPT ![a] = FALSE]
  /\ Disconnected(a)
  /\ UNCHANGED <<store, server, req, up, live, offered, applied, mixed>>

\* The timer's SIGTERM.
Restart(a) ==
  /\ running[a] # None
  /\ dying[a]
  /\ Graceful => out[a] = None
  /\ Stopped(a)
  /\ UNCHANGED used

Crash(a) ==
  /\ running[a] # None
  /\ used.crashes < MaxCrashes
  /\ Stopped(a)
  /\ used' = [used EXCEPT !.crashes = @ + 1]

\* systemd (Restart=always) starts the collector on the file as it is now.  An
\* invalid config ends it at once; of a torn one nothing is known.
Start(a) ==
  /\ running[a] = None
  /\ live[a] \in Valid \union {Torn}
  /\ running' = [running EXCEPT ![a] = live[a]]
  /\ UNCHANGED <<store, server, req, wire, conn, live, task, near, exposed,
                 synced, out, dying, offered, applied, mixed, used>>

-----------------------------------------------------------------------------

RequestStep(r) == RecordPending(r) \/ Lookup(r) \/ Send(r)

OperatorStep ==
  \/ \E r \in Requests, a \in Agents : Push(r, a) \/ Rollback(r, a)
  \/ \E r \in Requests : BulkPush(r) \/ RecordFails(r)
  \/ \E a \in Agents : DeleteAgent(a)

ConnectionStep(c) ==
  Register(c) \/ TouchRow(c) \/ Recreate(c) \/ RecordStatus(c) \/ Close(c)

HandlerStep(a, h) == Apply(a, h) \/ Reject(a, h) \/ Report(a, h)

Failure ==
  \/ ServerCrash
  \/ \E a \in Agents : Drop(a) \/ Crash(a)

Next ==
  \/ OperatorStep
  \/ \E r \in Requests : RequestStep(r)
  \/ \E c \in Conns : ConnectionStep(c)
  \/ \E a \in Agents, c \in Conns : Connect(a, c)
  \/ \E a \in Agents, h \in Handlers :
       Receive(a, h) \/ HandlerStep(a, h) \/ WriteThrough(a, h)
  \/ \E a \in Agents : SendNext(a) \/ Restart(a) \/ Start(a)
  \/ Failure

Spec == Init /\ [][Next]_vars

(***************************************************************************)
(* Goroutines run, the OpAMP client reconnects and reports on a timer,      *)
(* systemd restarts the process.  Operators and failures owe nothing.       *)
(***************************************************************************)
Fairness ==
  /\ \A r \in Requests : WF_vars(RequestStep(r))
  /\ \A c \in Conns : WF_vars(ConnectionStep(c))
  /\ \A a \in Agents :
       /\ WF_vars(\E c \in Conns : Connect(a, c))
       /\ WF_vars(SendNext(a))
       /\ WF_vars(Restart(a))
       /\ WF_vars(Start(a))
       /\ WF_vars(\E h \in Handlers : Receive(a, h))
       /\ \A h \in Handlers : WF_vars(HandlerStep(a, h))

FairSpec == Spec /\ Fairness
-----------------------------------------------------------------------------
(* Properties.                                                             *)

\* Every variable keeps the shape the code gives it.
TypeOK ==
  /\ row \in [Agents -> Row]
  /\ registry \in [Agents -> Maybe(Conns)]
  /\ owner \in [Conns -> Maybe(Agents)]
  /\ serving \in [Conns -> Serving]
  /\ req \in [Requests -> Request]
  /\ up \in [Conns -> Seq(Maybe(Status))]
  /\ down \in [Conns -> Seq(Configs)]
  /\ conn \in [Agents -> Maybe(Conns)]
  /\ live \in [Agents -> Configs \union {Torn}]
  /\ running \in [Agents -> Maybe(Configs \union {Torn})]
  /\ task \in [Agents -> [Handlers -> Task]]
  /\ near \in [Agents -> [Handlers -> SUBSET Configs]]
  /\ exposed \in [Agents -> SUBSET Handlers]
  /\ synced \in [Agents -> Maybe(Status)]
  /\ out \in [Agents -> Maybe(Status)]
  /\ dying \in [Agents -> BOOLEAN]
  /\ offered \in [Agents -> SUBSET Configs]
  /\ applied \in [Agents -> SUBSET Configs]
  /\ mixed \in [Agents -> SUBSET Configs]
  /\ used \in Counter

\* The registry and the requests that read it never hold a connection of
\* another agent: registry.get returns a connection whose close callback has
\* not run, and one already looked up is at worst closed when it is used
\* (connRegistry and pushConfig, opampserver.go).
Routing ==
  /\ \A a \in Agents : registry[a] # None => owner[registry[a]] = a
  /\ \A r \in Requests :
       req[r].pc = "send" => owner[req[r].conn] \in {req[r].at, None}

\* A request pushes to an agent only what an operator asked for it.
RequestsAsked ==
  \A r \in Requests : \A a \in req[r].todo \union ({req[r].at} \ {None}) :
    req[r].cfg \in offered[a]

\* So does an offer on the wire, and nothing is left there for nobody.
OffersAsked ==
  \A c \in Conns : down[c] # << >> =>
    /\ owner[c] # None
    /\ \A i \in 1..Len(down[c]) : down[c][i] \in offered[owner[c]]

\* What is stored for an agent was asked for it.  What it has installed or
\* runs is the initial config or one it was asked to apply, validated unless
\* two were applied at once; only then can it be a mixture.
AgentsAsked ==
  \A a \in Agents :
    /\ {row[a].pending, row[a].lkg} \subseteq Maybe(offered[a])
    /\ \A h \in Handlers : task[a][h].cfg \in Maybe(offered[a])
    /\ {live[a], running[a]} \subseteq
         Maybe(applied[a] \union {InitialConfig} \union
               (IF mixed[a] = {} THEN {} ELSE {Torn}))
    /\ mixed[a] \subseteq offered[a]
    /\ applied[a] \subseteq offered[a] \intersect (Valid \union mixed[a])

\* What is on its way to, stored for, or installed on an agent was asked for
\* by an operator for that very agent: bulk pushes, rollbacks, reused
\* connections and restarts never carry one agent's config to another.
Provenance == RequestsAsked /\ OffersAsked /\ AgentsAsked

\* A status claims APPLIED only for a config that replaced the agent's file or
\* was applied while another was.
Honest(a, s) == s # None /\ s.ok => s.cfg \in applied[a] \union mixed[a]

\* An agent never claims APPLIED for a config that did not replace its file,
\* unless that config was applied at the same time as another, wherever the
\* claim is: in the client, in flight or being recorded (handleRemoteConfig's
\* order of apply and report, opamp.go).
ClaimsHonest ==
  /\ \A a \in Agents : Honest(a, synced[a]) /\ Honest(a, out[a])
  /\ \A c \in Conns : owner[c] # None =>
       /\ Honest(owner[c], serving[c].msg)
       /\ \A i \in 1..Len(up[c]) : Honest(owner[c], up[c][i])

\* A process that runs another config than the one in its file is about to
\* restart into it: no applied config is left unloaded (the AfterFunc at the
\* end of handleRemoteConfig).
RestartDue ==
  \A a \in Agents : running[a] \notin {None, live[a]} =>
    \/ dying[a]
    \/ \E h \in Handlers : task[a][h].pc = "report" /\ task[a][h].ok

\* "A rollback re-sends whatever config was last successfully applied"
\* (README.md): the last-known-good config did run on the agent.
LkgWasApplied ==
  \A a \in Agents : row[a].lkg \in Maybe(applied[a])

\* No connection was lost and no process died yet.
Calm == used.drops = 0 /\ used.crashes = 0 /\ used.outages = 0

\* Nor was the row of an agent deleted under a push.
Undisturbed == Calm /\ used.deletes = 0

\* "PendingConfigHash is non-empty while a push is outstanding (sent but not
\* yet ACKed/NAKed by the agent)" (store.go).
PendingWhileOutstanding ==
  Undisturbed => \A a \in Agents :
    \/ conn[a] # None /\ down[conn[a]] # << >>
    \/ \E h \in Handlers : task[a][h].pc = "apply"
    => row[a].pending # None

\* After the last failure every agent ends up connected and reachable for
\* pushes, whatever late messages and closes the server still had to see.
EventuallyReachable ==
  <>[](\A a \in Agents : conn[a] # None /\ registry[a] = conn[a])

\* While the network and the processes hold, a config an agent is working on
\* is eventually resolved on the server: "anything else is reported back as
\* failed" (handleRemoteConfig, opamp.go).
OfferAnswered ==
  []Calm => \A a \in Agents, h \in Handlers :
    task[a][h].pc = "apply" ~> row[a].pending = None

\* Under the same condition a valid or invalid offer ends in agreement: the
\* agent runs its file, and the server shows either that config as last known
\* good or an error (validateAndApply, restart and RecordStatus together).
RolloutSettles ==
  []Calm => \A a \in Agents, h \in Handlers :
    task[a][h].pc = "apply" ~>
      [](row[a].err \/ running[a] = None \/ running[a] = row[a].lkg)
=============================================================================
