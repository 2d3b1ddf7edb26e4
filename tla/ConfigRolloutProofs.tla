------------------------ MODULE ConfigRolloutProofs ------------------------
(***************************************************************************)
(* Properties of ConfigRollout for any number of agents, connections,      *)
(* concurrent requests and handlers, and any bounds.                       *)
(***************************************************************************)
EXTENDS ConfigRollout, SequenceTheorems, TLAPS

\* A request at work has a config, one past "record" a target, one about to
\* send a connection.
RequestShape ==
  \A r \in Requests :
    /\ req[r].pc # "idle" => req[r].cfg \in Configs
    /\ req[r].pc \in {"lookup", "send"} => req[r].at \in Agents
    /\ req[r].pc = "send" => req[r].conn \in Conns

\* A handler at work has a config.
TaskShape ==
  \A a \in Agents, h \in Handlers :
    task[a][h].pc # "idle" => task[a][h].cfg \in Configs

\* A connection being served has an owner, and a status to record when it is
\* at "status".
ServingShape ==
  \A c \in Conns :
    /\ serving[c].pc # "idle" => owner[c] \in Agents
    /\ serving[c].pc = "status" => serving[c].msg \in Status

Typed == TypeOK /\ RequestShape /\ TaskShape /\ ServingShape

LEMMA NoneFacts ==
  /\ None \notin Configs /\ None \notin Conns /\ None \notin Agents
  /\ None \notin Status
  /\ Valid \subseteq Configs /\ InitialConfig \in Configs
  /\ Torn \notin Configs /\ Torn # None
  BY ConfigAssumption DEF Status

LEMMA TypedInit == Init => Typed
  BY NoneFacts
     DEF Init, Typed, TypeOK, RequestShape, TaskShape, ServingShape, Maybe,
         Row, NoRow, Serving, NotServing, Request, NoRequest, Task, NoTask,
         Counter

-----------------------------------------------------------------------------
(* What the helpers return.                                                *)

LEMMA RowExists ==
  ASSUME NEW r \in Row
  PROVE  [r EXCEPT !.exists = TRUE] \in Row
  BY DEF Row

LEMMA RowUpdates ==
  ASSUME NEW x \in Row, NEW c \in Configs
  PROVE  /\ WithPending(x, c) \in Row /\ Promoted(x) \in Row
         /\ Failed(x) \in Row /\ NoRow \in Row
<1>1. WithPending(x, c) \in Row
  BY DEF Row, Maybe, WithPending
<1>2. Promoted(x) \in Row
  BY DEF Row, Maybe, Promoted
<1>3. Failed(x) \in Row
  BY DEF Row, Maybe, Failed
<1>4. NoRow \in Row
  BY DEF Row, Maybe, NoRow
<1> QED
  BY <1>1, <1>2, <1>3, <1>4

LEMMA CounterUpdates ==
  ASSUME NEW x \in Counter
  PROVE  /\ [x EXCEPT !.requests = @ + 1] \in Counter
         /\ [x EXCEPT !.drops = @ + 1] \in Counter
         /\ [x EXCEPT !.crashes = @ + 1] \in Counter
         /\ [x EXCEPT !.outages = @ + 1] \in Counter
         /\ [x EXCEPT !.deletes = @ + 1] \in Counter
  BY DEF Counter

LEMMA NextTargetTyped ==
  ASSUME NEW r \in Requests, req[r] \in Request,
         NEW rest \in SUBSET req[r].todo
  PROVE  /\ NextTarget(r, rest) \in Request
         /\ NextTarget(r, rest).pc \in {"idle", "record"}
         /\ NextTarget(r, rest).pc # "idle" =>
              NextTarget(r, rest).cfg = req[r].cfg
         /\ NextTarget(r, rest).todo \subseteq rest
         /\ NextTarget(r, rest).at = None
<1>1. rest \in SUBSET Agents /\ req[r].cfg \in Maybe(Configs)
  BY DEF Request
<1>2. CASE rest = {}
  BY <1>2 DEF NextTarget, NoRequest, Request, Maybe
<1>3. CASE rest # {}
  BY <1>1, <1>3 DEF NextTarget, Request, Maybe
<1> QED
  BY <1>2, <1>3

LEMMA RequestTyped ==
  ASSUME req \in [Requests -> Request], RequestShape,
         NEW r \in Requests, NEW q \in Request,
         req' = [req EXCEPT ![r] = q],
         q.pc # "idle" => q.cfg \in Configs,
         q.pc \in {"lookup", "send"} => q.at \in Agents,
         q.pc = "send" => q.conn \in Conns
  PROVE  req' \in [Requests -> Request] /\ RequestShape'
  BY DEF RequestShape

LEMMA TaskTyped ==
  ASSUME task \in [Agents -> [Handlers -> Task]], TaskShape,
         NEW a \in Agents, NEW h \in Handlers, NEW t \in Task,
         task' = [task EXCEPT ![a] = [task[a] EXCEPT ![h] = t]],
         t.pc # "idle" => t.cfg \in Configs
  PROVE  task' \in [Agents -> [Handlers -> Task]] /\ TaskShape'
  BY DEF TaskShape

\* Taking the first message off a queue, and appending one.
LEMMA Dequeued ==
  ASSUME NEW S, NEW q \in Seq(S), q # << >>
  PROVE  /\ \E j \in 1..Len(q) : Head(q) = q[j]
         /\ \A i \in 1..Len(Tail(q)) : \E j \in 1..Len(q) : Tail(q)[i] = q[j]
<1>1. /\ 1 \in 1..Len(q) /\ Head(q) = q[1]
      /\ \A i \in 1..Len(Tail(q)) :
           i + 1 \in 1..Len(q) /\ Tail(q)[i] = q[i + 1]
  OBVIOUS
<1> QED
  BY <1>1

LEMMA Enqueued ==
  ASSUME NEW S, NEW q \in Seq(S), NEW m \in S
  PROVE  \A i \in 1..Len(Append(q, m)) :
           \/ Append(q, m)[i] = m
           \/ \E j \in 1..Len(q) : Append(q, m)[i] = q[j]
  OBVIOUS

-----------------------------------------------------------------------------
(* The steps of the REST requests.                                         *)

LEMMA BeginTyped ==
  ASSUME Typed, NEW r \in Requests, NEW T \in SUBSET Agents,
         NEW c \in Configs, Begin(r, T, c)
  PROVE  Typed'
<1> DEFINE q == [pc |-> "record", cfg |-> c, todo |-> T, at |-> None,
                 conn |-> None]
<1>1. q \in Request
  BY DEF Request, Maybe
<1>2. req' \in [Requests -> Request] /\ RequestShape'
  BY <1>1, RequestTyped DEF Begin, Typed, TypeOK
<1>3. used' \in Counter
  BY CounterUpdates DEF Begin, Typed, TypeOK
<1>4. offered' \in [Agents -> SUBSET Configs]
  BY DEF Begin, Typed, TypeOK
<1>5. UNCHANGED <<row, registry, owner, serving, up, down, conn, live,
                  running, task, near, exposed, synced, out, dying, applied,
                  mixed>>
  BY DEF Begin, store, server, wire, agent
<1> QED
  BY <1>2, <1>3, <1>4, <1>5 DEF Typed, TypeOK, TaskShape, ServingShape

LEMMA RecordPendingTyped ==
  ASSUME Typed, NEW r \in Requests, RecordPending(r)
  PROVE  Typed'
<1>1. PICK a \in req[r].todo :
        /\ req[r].pc = "record"
        /\ row' = [row EXCEPT ![a] = WithPending(@, req[r].cfg)]
        /\ req' = [req EXCEPT ![r].pc = "lookup", ![r].todo = @ \ {a},
                              ![r].at = a]
  BY Zenon DEF RecordPending
<1>2. req[r] \in Request /\ a \in Agents /\ req[r].cfg \in Configs
  BY <1>1 DEF Typed, TypeOK, RequestShape, Request
<1>3. row' \in [Agents -> Row]
  BY <1>1, <1>2, RowUpdates DEF Typed, TypeOK
<1>4. req' \in [Requests -> Request] /\ RequestShape'
  <2> DEFINE q == [req[r] EXCEPT !.pc = "lookup", !.todo = @ \ {a}, !.at = a]
  <2>1. q \in Request
    BY <1>2 DEF Request, Maybe
  <2>2. q.pc = "lookup" /\ q.cfg = req[r].cfg /\ q.at = a
    BY <1>2 DEF Request
  <2>3. req' = [req EXCEPT ![r] = q]
    BY <1>1
  <2> HIDE DEF q
  <2> QED
    BY <1>2, <2>1, <2>2, <2>3, RequestTyped DEF Typed, TypeOK
<1>5. UNCHANGED <<registry, owner, serving, up, down, conn, live, running,
                  task, near, exposed, synced, out, dying, offered, applied,
                  mixed, used>>
  BY DEF RecordPending, server, wire, agent
<1> QED
  BY <1>3, <1>4, <1>5 DEF Typed, TypeOK, TaskShape, ServingShape

LEMMA RecordFailsTyped ==
  ASSUME Typed, NEW r \in Requests, RecordFails(r)
  PROVE  Typed'
<1>1. PICK b \in req[r].todo :
        req' = [req EXCEPT ![r] = NextTarget(r, req[r].todo \ {b})]
  BY DEF RecordFails
<1>2. req[r] \in Request /\ req[r].cfg \in Configs
  BY DEF RecordFails, Typed, TypeOK, RequestShape
<1>3. req' \in [Requests -> Request] /\ RequestShape'
  BY <1>1, <1>2, NextTargetTyped, RequestTyped DEF Typed, TypeOK
<1>4. UNCHANGED <<row, registry, owner, serving, up, down, conn, live,
                  running, task, near, exposed, synced, out, dying, offered,
                  applied, mixed, used>>
  BY DEF RecordFails, store, server, wire, agent
<1> QED
  BY <1>3, <1>4 DEF Typed, TypeOK, TaskShape, ServingShape

LEMMA LookupTyped ==
  ASSUME Typed, NEW r \in Requests, Lookup(r)
  PROVE  Typed'
<1> DEFINE c == registry[req[r].at]
           q == [req[r] EXCEPT !.pc = "send", !.conn = c]
<1>1. /\ req[r] \in Request /\ req[r].pc = "lookup"
      /\ req[r].at \in Agents /\ req[r].cfg \in Configs /\ c \in Maybe(Conns)
  BY DEF Lookup, Typed, TypeOK, RequestShape
<1>2. req' \in [Requests -> Request] /\ RequestShape'
  <2>1. CASE c = None
    <3>1. req' = [req EXCEPT ![r] = NextTarget(r, req[r].todo)]
      BY <2>1 DEF Lookup
    <3> QED
      BY <1>1, <3>1, NextTargetTyped, RequestTyped DEF Typed, TypeOK
  <2>2. CASE c # None
    <3>1. q \in Request
      BY <1>1 DEF Request, Maybe
    <3>2. /\ q.pc = "send" /\ q.cfg = req[r].cfg /\ q.at = req[r].at
          /\ q.conn = c
      BY <1>1 DEF Request
    <3>3. req' = [req EXCEPT ![r] = q]
      BY <2>2 DEF Lookup
    <3>4. c \in Conns
      BY <1>1, <2>2 DEF Maybe
    <3> HIDE DEF c, q
    <3> QED
      BY <1>1, <3>1, <3>2, <3>3, <3>4, RequestTyped DEF Typed, TypeOK
  <2> QED
    BY <2>1, <2>2
<1>3. UNCHANGED <<row, registry, owner, serving, up, down, conn, live,
                  running, task, near, exposed, synced, out, dying, offered,
                  applied, mixed, used>>
  BY DEF Lookup, store, server, wire, agent
<1> QED
  BY <1>2, <1>3 DEF Typed, TypeOK, TaskShape, ServingShape

LEMMA SendTyped ==
  ASSUME Typed, NEW r \in Requests, Send(r)
  PROVE  Typed'
<1>1. /\ req[r] \in Request /\ req[r].cfg \in Configs /\ req[r].conn \in Conns
  BY DEF Send, Typed, TypeOK, RequestShape
<1>2. req' \in [Requests -> Request] /\ RequestShape'
  BY <1>1, NextTargetTyped, RequestTyped DEF Send, Typed, TypeOK
<1>3. down' \in [Conns -> Seq(Configs)]
  BY <1>1 DEF Send, Typed, TypeOK
<1>4. UNCHANGED <<row, registry, owner, serving, up, conn, live, running,
                  task, near, exposed, synced, out, dying, offered, applied,
                  mixed, used>>
  BY DEF Send, store, server, agent
<1> QED
  BY <1>2, <1>3, <1>4 DEF Typed, TypeOK, TaskShape, ServingShape

LEMMA DeleteAgentTyped ==
  ASSUME Typed, NEW a \in Agents, DeleteAgent(a)
  PROVE  Typed'
<1>1. row' \in [Agents -> Row]
  <2>1. NoRow \in Row
    BY DEF NoRow, Row, Maybe
  <2> QED
    BY <2>1 DEF DeleteAgent, Typed, TypeOK
<1>2. used' \in Counter
  BY CounterUpdates DEF DeleteAgent, Typed, TypeOK
<1>3. UNCHANGED <<registry, owner, serving, req, up, down, conn, live,
                  running, task, near, exposed, synced, out, dying, offered,
                  applied, mixed>>
  BY DEF DeleteAgent, server, wire, agent
<1> QED
  BY <1>1, <1>2, <1>3 DEF Typed, TypeOK, RequestShape, TaskShape, ServingShape

-----------------------------------------------------------------------------
(* The steps of the server's connections.                                  *)

LEMMA RegisterTyped ==
  ASSUME Typed, NEW c \in Conns, Register(c)
  PROVE  Typed'
<1>1. /\ owner[c] \in Agents /\ up[c] \in Seq(Maybe(Status)) /\ up[c] # << >>
      /\ Head(up[c]) \in Maybe(Status) /\ Tail(up[c]) \in Seq(Maybe(Status))
  <2>1. owner[c] \in Agents /\ up[c] \in Seq(Maybe(Status)) /\ up[c] # << >>
    BY DEF Register, Registered, Typed, TypeOK, Maybe
  <2> QED
    BY <2>1
<1>2. registry' \in [Agents -> Maybe(Conns)]
  BY DEF Register, Registered, Typed, TypeOK, Maybe
<1>3. serving' \in [Conns -> Serving] /\ ServingShape'
  <2> DEFINE s == [pc |-> "touch", msg |-> Head(up[c])]
  <2>1. s \in Serving /\ s.pc = "touch"
    BY <1>1 DEF Serving
  <2>2. serving' = [serving EXCEPT ![c] = s] /\ owner' = owner
    BY DEF Register, Registered
  <2> HIDE DEF s
  <2> QED
    BY <1>1, <2>1, <2>2 DEF Typed, TypeOK, ServingShape
<1>4. up' \in [Conns -> Seq(Maybe(Status))]
  BY <1>1 DEF Register, Registered, Typed, TypeOK
<1>5. UNCHANGED <<row, owner, req, down, conn, live, running, task, near,
                  exposed, synced, out, dying, offered, applied, mixed, used>>
  BY DEF Register, Registered, store, agent
<1> QED
  BY <1>2, <1>3, <1>4, <1>5 DEF Typed, TypeOK, RequestShape, TaskShape

LEMMA TouchRowTyped ==
  ASSUME Typed, NEW c \in Conns, TouchRow(c)
  PROVE  Typed'
<1>1. owner[c] \in Agents /\ serving[c] \in Serving
  BY DEF TouchRow, Typed, TypeOK, ServingShape
<1>2. row' \in [Agents -> Row]
  <2>1. row \in [Agents -> Row]
    BY DEF Typed, TypeOK
  <2>2. row' = [row EXCEPT ![owner[c]] = [row[owner[c]] EXCEPT !.exists = TRUE]]
    BY DEF TouchRow
  <2>3. [row[owner[c]] EXCEPT !.exists = TRUE] \in Row
    BY <1>1, <2>1, RowExists
  <2> QED
    BY <1>1, <2>1, <2>2, <2>3
<1>3. serving' \in [Conns -> Serving] /\ ServingShape'
  <2> DEFINE s == IF serving[c].msg = None THEN NotServing
                  ELSE [serving[c] EXCEPT !.pc = "status"]
  <2>1. s \in Serving /\ (s.pc = "status" => s.msg \in Status)
    <3>1. CASE serving[c].msg = None
      BY <3>1 DEF NotServing, Serving, Maybe
    <3>2. CASE serving[c].msg # None
      BY <1>1, <3>2 DEF Serving, Maybe
    <3> QED
      BY <3>1, <3>2
  <2>2. serving' = [serving EXCEPT ![c] = s] /\ owner' = owner
    BY DEF TouchRow
  <2> HIDE DEF s
  <2> QED
    BY <1>1, <2>1, <2>2 DEF Typed, TypeOK, ServingShape
<1>4. UNCHANGED <<registry, owner, req, up, down, conn, live, running, task,
                  near, exposed, synced, out, dying, offered, applied,
                  mixed, used>>
  BY DEF TouchRow, wire, agent
<1> QED
  BY <1>2, <1>3, <1>4 DEF Typed, TypeOK, RequestShape, TaskShape

LEMMA RecreateTyped ==
  ASSUME Typed, NEW c \in Conns, Recreate(c)
  PROVE  Typed'
<1>1. owner[c] \in Agents
  BY DEF Recreate, Typed, ServingShape
<1>2. row' \in [Agents -> Row]
  <2>1. row \in [Agents -> Row]
    BY DEF Typed, TypeOK
  <2>2. row' = [row EXCEPT ![owner[c]] = [row[owner[c]] EXCEPT !.exists = TRUE]]
    BY DEF Recreate
  <2>3. [row[owner[c]] EXCEPT !.exists = TRUE] \in Row
    BY <1>1, <2>1, RowExists
  <2> QED
    BY <1>1, <2>1, <2>2, <2>3
<1>3. UNCHANGED <<registry, owner, serving, req, up, down, conn, live,
                  running, task, near, exposed, synced, out, dying, offered,
                  applied, mixed, used>>
  BY DEF Recreate, server, wire, agent
<1> QED
  BY <1>2, <1>3 DEF Typed, TypeOK, RequestShape, TaskShape, ServingShape

LEMMA RecordStatusTyped ==
  ASSUME Typed, NEW c \in Conns, RecordStatus(c)
  PROVE  Typed'
<1>1. owner[c] \in Agents /\ row[owner[c]] \in Row
  BY DEF RecordStatus, Typed, TypeOK, ServingShape
<1>2. row' \in [Agents -> Row]
  <2> DEFINE x == row[owner[c]]
             y == IF ~ x.exists THEN x
                  ELSE IF serving[c].msg.ok THEN Promoted(x) ELSE Failed(x)
  <2>1. Promoted(x) \in Row /\ Failed(x) \in Row
    BY <1>1, RowUpdates, NoneFacts
  <2>2. y \in Row
    BY <1>1, <2>1
  <2>3. row' = [row EXCEPT ![owner[c]] = y]
    BY DEF RecordStatus
  <2> HIDE DEF y
  <2> QED
    BY <2>2, <2>3 DEF Typed, TypeOK
<1>3. serving' \in [Conns -> Serving] /\ ServingShape'
  <2>1. NotServing \in Serving /\ NotServing.pc = "idle"
    BY DEF NotServing, Serving, Maybe
  <2>2. serving' = [serving EXCEPT ![c] = NotServing] /\ owner' = owner
    BY DEF RecordStatus
  <2> QED
    BY <2>1, <2>2 DEF Typed, TypeOK, ServingShape
<1>4. UNCHANGED <<registry, owner, req, up, down, conn, live, running, task,
                  near, exposed, synced, out, dying, offered, applied,
                  mixed, used>>
  BY DEF RecordStatus, wire, agent
<1> QED
  BY <1>2, <1>3, <1>4 DEF Typed, TypeOK, RequestShape, TaskShape

LEMMA CloseTyped ==
  ASSUME Typed, NEW c \in Conns, Close(c)
  PROVE  Typed'
<1>1. registry' \in [Agents -> Maybe(Conns)]
  BY DEF Close, Unregistered, Typed, TypeOK, Maybe
<1>2. owner' \in [Conns -> Maybe(Agents)] /\ ServingShape'
  BY DEF Close, Typed, TypeOK, Maybe, ServingShape
<1>3. up' \in [Conns -> Seq(Maybe(Status))]
  <2>1. << >> \in Seq(Maybe(Status))
    OBVIOUS
  <2> QED
    BY <2>1 DEF Close, Typed, TypeOK
<1>4. UNCHANGED <<row, serving, req, down, conn, live, running, task, near,
                  exposed, synced, out, dying, offered, applied, mixed, used>>
  BY DEF Close, store, agent
<1> QED
  BY <1>1, <1>2, <1>3, <1>4 DEF Typed, TypeOK, RequestShape, TaskShape

LEMMA ServerCrashTyped ==
  ASSUME Typed, ServerCrash
  PROVE  Typed'
<1>1. /\ registry' \in [Agents -> Maybe(Conns)]
      /\ conn' \in [Agents -> Maybe(Conns)]
      /\ owner' \in [Conns -> Maybe(Agents)]
  BY DEF ServerCrash, Maybe
<1>2. serving' \in [Conns -> Serving] /\ ServingShape'
  BY DEF ServerCrash, NotServing, Serving, Maybe, ServingShape
<1>3. req' \in [Requests -> Request] /\ RequestShape'
  BY DEF ServerCrash, NoRequest, Request, Maybe, RequestShape
<1>4. up' \in [Conns -> Seq(Maybe(Status))] /\ down' \in [Conns -> Seq(Configs)]
  BY DEF ServerCrash
<1>5. used' \in Counter
  BY CounterUpdates DEF ServerCrash, Typed, TypeOK
<1>6. UNCHANGED <<row, live, running, task, near, exposed, synced, out,
                  dying, offered, applied, mixed>>
  BY DEF ServerCrash, store
<1> QED
  BY <1>1, <1>2, <1>3, <1>4, <1>5, <1>6 DEF Typed, TypeOK, TaskShape

-----------------------------------------------------------------------------
(* The steps of the agent.                                                 *)

LEMMA ConnectTyped ==
  ASSUME Typed, NEW a \in Agents, NEW c \in Conns, Connect(a, c)
  PROVE  Typed'
<1>1. conn' \in [Agents -> Maybe(Conns)] /\ owner' \in [Conns -> Maybe(Agents)]
  BY DEF Connect, Typed, TypeOK, Maybe
<1>2. up' \in [Conns -> Seq(Maybe(Status))]
  <2>1. <<synced[a]>> \in Seq(Maybe(Status))
    BY DEF Typed, TypeOK
  <2> QED
    BY <2>1 DEF Connect, Typed, TypeOK
<1>3. out' \in [Agents -> Maybe(Status)]
  BY DEF Connect, Typed, TypeOK, Maybe
<1>4. ServingShape'
  BY DEF Connect, Typed, TypeOK, ServingShape
<1>5. UNCHANGED <<row, registry, serving, req, down, live, running, task,
                  near, exposed, synced, dying, offered, applied, mixed,
                  used>>
  BY DEF Connect, store
<1> QED
  BY <1>1, <1>2, <1>3, <1>4, <1>5 DEF Typed, TypeOK, RequestShape, TaskShape

LEMMA SendNextTyped ==
  ASSUME Typed, NEW a \in Agents, SendNext(a)
  PROVE  Typed'
<1>1. up' \in [Conns -> Seq(Maybe(Status))]
  <2>1. conn[a] \in Conns /\ out[a] \in Maybe(Status)
    BY DEF SendNext, MaySend, Typed, TypeOK, Maybe
  <2>2. Append(up[conn[a]], out[a]) \in Seq(Maybe(Status))
    BY <2>1 DEF Typed, TypeOK
  <2> QED
    BY <2>1, <2>2 DEF SendNext, Typed, TypeOK
<1>2. out' \in [Agents -> Maybe(Status)]
  BY DEF SendNext, Typed, TypeOK, Maybe
<1>3. UNCHANGED <<row, registry, owner, serving, req, down, conn, live,
                  running, task, near, exposed, synced, dying, offered,
                  applied, mixed, used>>
  BY DEF SendNext, store, server
<1> QED
  BY <1>1, <1>2, <1>3
     DEF Typed, TypeOK, RequestShape, TaskShape, ServingShape

LEMMA DisconnectedTyped ==
  ASSUME Typed, NEW a \in Agents, Disconnected(a)
  PROVE  conn' \in [Agents -> Maybe(Conns)] /\ down' \in [Conns -> Seq(Configs)]
<1>1. << >> \in Seq(Configs)
  OBVIOUS
<1> QED
  BY <1>1 DEF Disconnected, Typed, TypeOK, Maybe

LEMMA DropTyped ==
  ASSUME Typed, NEW a \in Agents, Drop(a)
  PROVE  Typed'
<1>1. conn' \in [Agents -> Maybe(Conns)] /\ down' \in [Conns -> Seq(Configs)]
  BY DisconnectedTyped DEF Drop
<1>2. used' \in Counter
  BY CounterUpdates DEF Drop, Typed, TypeOK
<1>3. UNCHANGED <<row, registry, owner, serving, req, up, live, running,
                  task, near, exposed, synced, out, dying, offered, applied,
                  mixed>>
  BY DEF Drop, store, server
<1> QED
  BY <1>1, <1>2, <1>3
     DEF Typed, TypeOK, RequestShape, TaskShape, ServingShape

LEMMA ReceiveTyped ==
  ASSUME Typed, NEW a \in Agents, NEW h \in Handlers, Receive(a, h)
  PROVE  Typed'
<1> DEFINE k == conn[a]
           c == Head(down[k])
           others == {task[a][g].cfg : g \in Applying(a)}
           t == [pc |-> "apply", ok |-> FALSE, cfg |-> c]
<1>1. k \in Conns /\ down[k] \in Seq(Configs) /\ down[k] # << >>
  BY DEF Receive, Typed, TypeOK, Maybe
<1>2. c \in Configs /\ Tail(down[k]) \in Seq(Configs)
  BY <1>1
<1>3. task' \in [Agents -> [Handlers -> Task]] /\ TaskShape'
  <2>1. t \in Task /\ t.cfg \in Configs
    BY <1>2 DEF Task, Maybe
  <2>2. task' = [task EXCEPT ![a] = [task[a] EXCEPT ![h] = t]]
    BY DEF Receive
  <2> HIDE DEF t
  <2> QED
    BY <2>1, <2>2, TaskTyped DEF Typed, TypeOK
<1>4. down' \in [Conns -> Seq(Configs)]
  BY <1>1, <1>2 DEF Receive, Typed, TypeOK
<1>5. others \subseteq Configs
  BY DEF Applying, Typed, TaskShape
<1>6. /\ near' \in [Agents -> [Handlers -> SUBSET Configs]]
      /\ mixed' \in [Agents -> SUBSET Configs]
  <2>1. /\ near' = [near EXCEPT ![a] = [g \in Handlers |->
                      IF g = h THEN others
                      ELSE near[a][g] \union
                             (IF g \in Applying(a) THEN {c} ELSE {})]]
        /\ mixed' = [mixed EXCEPT ![a] = mixed[a] \union
                       (IF others = {} THEN {} ELSE others \union {c})]
    BY DEF Receive
  <2> HIDE DEF c, others
  <2>2. /\ near \in [Agents -> [Handlers -> SUBSET Configs]]
        /\ mixed \in [Agents -> SUBSET Configs]
    BY DEF Typed, TypeOK
  <2>3. [g \in Handlers |->
           IF g = h THEN others
           ELSE near[a][g] \union (IF g \in Applying(a) THEN {c} ELSE {})]
          \in [Handlers -> SUBSET Configs]
    BY <1>2, <1>5, <2>2
  <2>4. mixed[a] \union (IF others = {} THEN {} ELSE others \union {c})
          \in SUBSET Configs
    BY <1>2, <1>5, <2>2
  <2> QED
    BY <2>1, <2>2, <2>3, <2>4, Zenon
<1>7. UNCHANGED <<row, registry, owner, serving, req, up, conn, live, running,
                  exposed, synced, out, dying, offered, applied, used>>
  BY DEF Receive, store, server
<1> QED
  BY <1>3, <1>4, <1>6, <1>7 DEF Typed, TypeOK, RequestShape, ServingShape

\* A handler that left validateAndApply no longer overlaps with any other.
LEMMA LeftTyped ==
  ASSUME Typed, NEW a \in Agents, NEW h \in Handlers, NEW S \in SUBSET Handlers
  PROVE  /\ [near EXCEPT ![a][h] = {}] \in
              [Agents -> [Handlers -> SUBSET Configs]]
         /\ [exposed EXCEPT ![a] = S] \in [Agents -> SUBSET Handlers]
  BY DEF Typed, TypeOK

LEMMA RenamedTyped ==
  ASSUME Typed, NEW a \in Agents, NEW h \in Handlers, task[a][h].pc = "apply"
  PROVE  /\ Renamed(a, h) \subseteq Configs \union {Torn}
         /\ {task[a][h].cfg, Torn} \subseteq Configs \union {Torn}
<1>1. task[a][h].cfg \in Configs /\ near[a][h] \in SUBSET Configs
  BY DEF Typed, TypeOK, TaskShape
<1> QED
  BY <1>1 DEF Renamed

LEMMA ReplacesTyped ==
  ASSUME Typed, NEW a \in Agents, NEW x \in Configs \union {Torn},
         Replaces(a, x)
  PROVE  /\ live' \in [Agents -> Configs \union {Torn}]
         /\ applied' \in [Agents -> SUBSET Configs]
  BY DEF Replaces, Typed, TypeOK

LEMMA ReturnedTyped ==
  ASSUME Typed, NEW a \in Agents, NEW h \in Handlers, NEW ok \in BOOLEAN,
         task[a][h].pc = "apply", task' = Returned(a, h, ok)
  PROVE  task' \in [Agents -> [Handlers -> Task]] /\ TaskShape'
<1> DEFINE t == [task[a][h] EXCEPT !.pc = "report", !.ok = ok]
<1>1. task[a][h] \in Task /\ task[a][h].cfg \in Configs
  BY DEF Typed, TypeOK, TaskShape
<1>2. t \in Task /\ t.cfg = task[a][h].cfg
  BY <1>1 DEF Task
<1>3. task' = [task EXCEPT ![a] = [task[a] EXCEPT ![h] = t]]
  BY Zenon DEF Returned, Typed, TypeOK
<1> HIDE DEF t
<1> QED
  BY <1>1, <1>2, <1>3, TaskTyped DEF Typed, TypeOK

LEMMA ReturnedOnly ==
  ASSUME Typed, NEW a \in Agents, NEW h \in Handlers, NEW ok \in BOOLEAN,
         task' = Returned(a, h, ok)
  PROVE  /\ task'[a][h].pc = "report" /\ task'[a][h].ok = ok
         /\ task'[a][h].cfg = task[a][h].cfg
         /\ \A b \in Agents, g \in Handlers :
              b # a \/ g # h => task'[b][g] = task[b][g]
<1> DEFINE t == [task[a][h] EXCEPT !.pc = "report", !.ok = ok]
<1>1. task[a][h] \in Task
  BY DEF Typed, TypeOK
<1>2. t.pc = "report" /\ t.ok = ok /\ t.cfg = task[a][h].cfg
  BY <1>1 DEF Task
<1>3. task' = [task EXCEPT ![a] = [task[a] EXCEPT ![h] = t]]
  BY Zenon DEF Returned, Typed, TypeOK
<1> HIDE DEF t
<1> QED
  BY <1>2, <1>3 DEF Typed, TypeOK

LEMMA ApplyTyped ==
  ASSUME Typed, NEW a \in Agents, NEW h \in Handlers, Apply(a, h)
  PROVE  Typed'
<1>1. task' \in [Agents -> [Handlers -> Task]] /\ TaskShape'
  BY ReturnedTyped DEF Apply
<1>2. /\ live' \in [Agents -> Configs \union {Torn}]
      /\ applied' \in [Agents -> SUBSET Configs]
  BY RenamedTyped, ReplacesTyped DEF Apply
<1>3. /\ near' \in [Agents -> [Handlers -> SUBSET Configs]]
      /\ exposed' \in [Agents -> SUBSET Handlers]
  BY LeftTyped, Zenon DEF Apply, Applying
<1>4. UNCHANGED <<row, registry, owner, serving, req, up, down, conn, running,
                  synced, out, dying, offered, mixed, used>>
  BY DEF Apply, store, server, wire
<1> QED
  BY <1>1, <1>2, <1>3, <1>4 DEF Typed, TypeOK, RequestShape, ServingShape

LEMMA RejectTyped ==
  ASSUME Typed, NEW a \in Agents, NEW h \in Handlers, Reject(a, h)
  PROVE  Typed'
<1>1. task' \in [Agents -> [Handlers -> Task]] /\ TaskShape'
  BY ReturnedTyped DEF Reject
<1>2. /\ near' \in [Agents -> [Handlers -> SUBSET Configs]]
      /\ exposed' \in [Agents -> SUBSET Handlers]
  <2>1. exposed[a] \ {h} \in SUBSET Handlers
    BY DEF Typed, TypeOK
  <2> QED
    BY <2>1, LeftTyped, Zenon DEF Reject
<1>3. UNCHANGED <<row, registry, owner, serving, req, up, down, conn, live,
                  running, synced, out, dying, offered, applied, mixed, used>>
  BY DEF Reject, store, server, wire
<1> QED
  BY <1>1, <1>2, <1>3 DEF Typed, TypeOK, RequestShape, ServingShape

LEMMA WriteThroughTyped ==
  ASSUME Typed, NEW a \in Agents, NEW h \in Handlers, WriteThrough(a, h)
  PROVE  Typed'
<1>1. /\ live' \in [Agents -> Configs \union {Torn}]
      /\ applied' \in [Agents -> SUBSET Configs]
  BY RenamedTyped, ReplacesTyped DEF WriteThrough
<1>2. UNCHANGED <<row, registry, owner, serving, req, up, down, conn, running,
                  task, near, exposed, synced, out, dying, offered, mixed,
                  used>>
  BY DEF WriteThrough, store, server, wire
<1> QED
  BY <1>1, <1>2
     DEF Typed, TypeOK, RequestShape, TaskShape, ServingShape

LEMMA ReportTyped ==
  ASSUME Typed, NEW a \in Agents, NEW h \in Handlers, Report(a, h)
  PROVE  Typed'
<1> DEFINE s == [ok |-> task[a][h].ok, cfg |-> task[a][h].cfg]
<1>1. s \in Status
  <2>1. task[a][h] \in Task /\ task[a][h].cfg \in Configs
    BY DEF Report, Typed, TypeOK, TaskShape
  <2> QED
    BY <2>1 DEF Status, Task
<1>2. /\ synced' \in [Agents -> Maybe(Status)]
      /\ out' \in [Agents -> Maybe(Status)]
  <2>1. ReportStatus(a, s)
    BY DEF Report
  <2> HIDE DEF s
  <2>2. synced' = [synced EXCEPT ![a] = s]
        /\ (out' = [out EXCEPT ![a] = s] \/ out' = out)
    BY <2>1, Zenon DEF ReportStatus
  <2>3. /\ synced \in [Agents -> Maybe(Status)]
        /\ out \in [Agents -> Maybe(Status)]
    BY DEF Typed, TypeOK
  <2>4. s \in Maybe(Status)
    BY <1>1, Zenon DEF Maybe
  <2> QED
    BY <2>2, <2>3, <2>4
<1>3. dying' \in [Agents -> BOOLEAN]
  <2>1. (dying[a] \/ ArmsRestart(a, h)) \in BOOLEAN
    OBVIOUS
  <2>2. dying' = [dying EXCEPT ![a] = @ \/ ArmsRestart(a, h)]
    BY DEF Report
  <2> QED
    BY <2>1, <2>2, Zenon DEF Typed, TypeOK
<1>4. task' \in [Agents -> [Handlers -> Task]] /\ TaskShape'
  <2>1. NoTask \in Task /\ NoTask.pc = "idle"
    BY DEF NoTask, Task, Maybe
  <2>2. task' = [task EXCEPT ![a] = [task[a] EXCEPT ![h] = NoTask]]
    BY DEF Report
  <2> QED
    BY <2>1, <2>2, TaskTyped DEF Typed, TypeOK
<1>5. UNCHANGED <<row, registry, owner, serving, req, up, down, conn, live,
                  running, near, exposed, offered, applied, mixed, used>>
  BY DEF Report, store, server, wire
<1> QED
  BY <1>2, <1>3, <1>4, <1>5 DEF Typed, TypeOK, RequestShape, ServingShape

LEMMA StoppedTyped ==
  ASSUME Typed, NEW a \in Agents, Stopped(a), used' \in Counter
  PROVE  Typed'
<1>1. conn' \in [Agents -> Maybe(Conns)] /\ down' \in [Conns -> Seq(Configs)]
  BY DisconnectedTyped DEF Stopped
<1>2. /\ running' \in [Agents -> Maybe(Configs \union {Torn})]
      /\ synced' \in [Agents -> Maybe(Status)]
      /\ out' \in [Agents -> Maybe(Status)]
      /\ dying' \in [Agents -> BOOLEAN]
  BY DEF Stopped, Typed, TypeOK, Maybe
<1>3. /\ near' \in [Agents -> [Handlers -> SUBSET Configs]]
      /\ exposed' \in [Agents -> SUBSET Handlers]
  BY DEF Stopped, Typed, TypeOK
<1>4. task' \in [Agents -> [Handlers -> Task]] /\ TaskShape'
  BY DEF Stopped, NoTask, Task, Maybe, TaskShape, Typed, TypeOK
<1>5. UNCHANGED <<row, registry, owner, serving, req, up, live, offered,
                  applied, mixed>>
  BY DEF Stopped, store, server
<1> QED
  BY <1>1, <1>2, <1>3, <1>4, <1>5 DEF Typed, TypeOK, RequestShape, ServingShape

LEMMA StartTyped ==
  ASSUME Typed, NEW a \in Agents, Start(a)
  PROVE  Typed'
<1>1. running' \in [Agents -> Maybe(Configs \union {Torn})]
  BY DEF Start, Typed, TypeOK, Maybe
<1>2. UNCHANGED <<row, registry, owner, serving, req, up, down, conn, live,
                  task, near, exposed, synced, out, dying, offered, applied,
                  mixed, used>>
  BY DEF Start, store, server, wire
<1> QED
  BY <1>1, <1>2 DEF Typed, TypeOK, RequestShape, TaskShape, ServingShape

-----------------------------------------------------------------------------
(* Type correctness.                                                       *)

\* A push, a bulk push and a rollback all begin a request for some agents.
LEMMA OperatorCases ==
  ASSUME Typed, OperatorStep
  PROVE  \/ \E r \in Requests, T \in SUBSET Agents, c \in Configs :
              Begin(r, T, c)
         \/ \E r \in Requests : RecordFails(r)
         \/ \E a \in Agents : DeleteAgent(a)
<1>1. ASSUME NEW r \in Requests, NEW a \in Agents, Push(r, a)
      PROVE  \E T \in SUBSET Agents, c \in Configs : Begin(r, T, c)
  BY <1>1 DEF Push
<1>2. ASSUME NEW r \in Requests, NEW a \in Agents, Rollback(r, a)
      PROVE  \E T \in SUBSET Agents, c \in Configs : Begin(r, T, c)
  <2>1. row[a].lkg \in Configs
    BY <1>2 DEF Rollback, Typed, TypeOK, Row, Maybe
  <2> QED
    BY <1>2, <2>1 DEF Rollback
<1>3. ASSUME NEW r \in Requests, BulkPush(r)
      PROVE  \E T \in SUBSET Agents, c \in Configs : Begin(r, T, c)
  BY <1>3 DEF BulkPush
<1> QED
  BY <1>1, <1>2, <1>3 DEF OperatorStep

LEMMA TypedStep == Typed /\ [Next]_vars => Typed'
<1> SUFFICES ASSUME Typed, [Next]_vars PROVE Typed'
  OBVIOUS
<1>1. CASE OperatorStep
  BY <1>1, OperatorCases, BeginTyped, RecordFailsTyped, DeleteAgentTyped
<1>2. ASSUME NEW r \in Requests, RequestStep(r)
      PROVE  Typed'
  BY <1>2, RecordPendingTyped, LookupTyped, SendTyped DEF RequestStep
<1>3. ASSUME NEW c \in Conns, ConnectionStep(c)
      PROVE  Typed'
  BY <1>3, RegisterTyped, TouchRowTyped, RecreateTyped, RecordStatusTyped,
     CloseTyped DEF ConnectionStep
<1>4. ASSUME NEW a \in Agents, NEW h \in Handlers,
             Receive(a, h) \/ HandlerStep(a, h) \/ WriteThrough(a, h)
      PROVE  Typed'
  BY <1>4, ReceiveTyped, ApplyTyped, RejectTyped, ReportTyped,
     WriteThroughTyped DEF HandlerStep
<1>5. ASSUME NEW a \in Agents, Restart(a) \/ Crash(a)
      PROVE  Typed'
  <2>1. used' \in Counter
    BY <1>5, CounterUpdates DEF Restart, Crash, Typed, TypeOK
  <2> QED
    BY <1>5, <2>1, StoppedTyped DEF Restart, Crash
<1>6. CASE UNCHANGED vars
  BY <1>6 DEF vars, Typed, TypeOK, RequestShape, TaskShape, ServingShape
<1> QED
  BY <1>1, <1>2, <1>3, <1>4, <1>5, <1>6, ConnectTyped, SendNextTyped,
     DropTyped, ServerCrashTyped, StartTyped DEF Next, Failure

\* Whatever requests, messages, connections and failures do, the state keeps
\* its types; with TypedStep also that a request about to send has a
\* connection and that a status is only recorded for an agent.
THEOREM TypeCorrect == Spec => []TypeOK
<1>1. Spec => []Typed
  BY TypedInit, TypedStep, PTL DEF Spec
<1>2. Typed => TypeOK
  BY DEF Typed
<1> QED
  BY <1>1, <1>2, PTL

-----------------------------------------------------------------------------
(* Routing.                                                                *)

\* Routing speaks of the state after the step through these equalities only.
LEMMA RoutingFrame ==
  ASSUME Routing, UNCHANGED <<registry, owner>>,
         \A r \in Requests : req'[r].pc = "send" => req'[r] = req[r]
  PROVE  Routing'
  BY DEF Routing

LEMMA RoutingStep == Typed /\ Routing /\ [Next]_vars => Routing'
<1> SUFFICES ASSUME Typed, Routing, [Next]_vars PROVE Routing'
  OBVIOUS
<1>1. CASE OperatorStep
  <2>1. /\ UNCHANGED <<registry, owner>>
        /\ \A r \in Requests : req'[r].pc = "send" => req'[r] = req[r]
    <3>1. ASSUME NEW r \in Requests, NEW T \in SUBSET Agents, NEW c \in Configs,
                 Begin(r, T, c)
          PROVE  /\ UNCHANGED <<registry, owner>>
                 /\ \A s \in Requests : req'[s].pc = "send" => req'[s] = req[s]
      BY <3>1 DEF Begin, server, Typed, TypeOK
    <3>2. ASSUME NEW r \in Requests, RecordFails(r)
          PROVE  /\ UNCHANGED <<registry, owner>>
                 /\ \A s \in Requests : req'[s].pc = "send" => req'[s] = req[s]
      <4>1. PICK b \in req[r].todo :
              req' = [req EXCEPT ![r] = NextTarget(r, req[r].todo \ {b})]
        BY <3>2 DEF RecordFails
      <4>2. req[r] \in Request
        BY DEF Typed, TypeOK
      <4>3. req'[r].pc # "send" /\ \A s \in Requests \ {r} : req'[s] = req[s]
        BY <4>1, <4>2, NextTargetTyped DEF Typed, TypeOK
      <4> QED
        BY <3>2, <4>3 DEF RecordFails, server
    <3>3. ASSUME NEW a \in Agents, DeleteAgent(a)
          PROVE  UNCHANGED <<registry, owner, req>>
      BY <3>3 DEF DeleteAgent, server
    <3> QED
      BY <1>1, <3>1, <3>2, <3>3, OperatorCases
  <2> QED
    BY <2>1, RoutingFrame
<1>2. ASSUME NEW r \in Requests, RecordPending(r) \/ Send(r)
      PROVE  Routing'
  <2>1. req[r] \in Request
    BY DEF Typed, TypeOK
  <2>2. /\ UNCHANGED <<registry, owner>>
        /\ \A s \in Requests : req'[s].pc = "send" => req'[s] = req[s]
    <3>1. CASE RecordPending(r)
      <4>1. PICK b \in req[r].todo :
              req' = [req EXCEPT ![r].pc = "lookup", ![r].todo = @ \ {b},
                                 ![r].at = b]
        BY <3>1 DEF RecordPending
      <4>2. req'[r].pc = "lookup" /\ \A s \in Requests \ {r} : req'[s] = req[s]
        BY <2>1, <4>1 DEF Typed, TypeOK, Request
      <4> QED
        BY <3>1, <4>2 DEF RecordPending, server
    <3>2. CASE Send(r)
      BY <2>1, <3>2, NextTargetTyped DEF Send, server, Typed, TypeOK
    <3> QED
      BY <1>2, <3>1, <3>2
  <2> QED
    BY <2>2, RoutingFrame
<1>3. ASSUME NEW r \in Requests, Lookup(r)
      PROVE  Routing'
  <2> DEFINE k == registry[req[r].at]
  <2>1. req[r] \in Request /\ req[r].at \in Agents
    BY <1>3 DEF Lookup, Typed, TypeOK, RequestShape
  <2>2. /\ UNCHANGED <<registry, owner>>
        /\ \A s \in Requests \ {r} : req'[s] = req[s]
    BY <1>3 DEF Lookup, server, Typed, TypeOK
  <2>3. req'[r].pc = "send" => owner[req'[r].conn] = req'[r].at
    <3>1. CASE k = None
      BY <1>3, <2>1, <3>1, NextTargetTyped DEF Lookup, Typed, TypeOK
    <3>2. CASE k # None
      <4>1. req'[r] = [req[r] EXCEPT !.pc = "send", !.conn = k]
        BY <1>3, <3>2 DEF Lookup, Typed, TypeOK
      <4>2. req'[r].at = req[r].at /\ req'[r].conn = k
        BY <2>1, <4>1 DEF Request
      <4> QED
        BY <2>1, <3>2, <4>2 DEF Routing
    <3> QED
      BY <3>1, <3>2
  <2> QED
    BY <2>2, <2>3 DEF Routing
<1>4. ASSUME NEW c \in Conns, ConnectionStep(c)
      PROVE  Routing'
  <2>1. CASE Register(c)
    BY <2>1 DEF Register, Registered, Routing, Typed, TypeOK, Maybe
  <2>2. CASE TouchRow(c) \/ Recreate(c) \/ RecordStatus(c)
    BY <2>2, RoutingFrame DEF TouchRow, Recreate, RecordStatus, server
  <2>3. CASE Close(c)
    BY <2>3 DEF Close, Unregistered, Routing, Typed, TypeOK, RequestShape
  <2> QED
    BY <1>4, <2>1, <2>2, <2>3 DEF ConnectionStep
<1>5. ASSUME NEW a \in Agents, NEW c \in Conns, Connect(a, c)
      PROVE  Routing'
  BY <1>5, NoneFacts DEF Connect, Routing, Typed, TypeOK, RequestShape, Maybe
<1>6. CASE ServerCrash
  BY <1>6 DEF ServerCrash, NoRequest, Routing
<1>7. CASE UNCHANGED <<registry, owner, req>>
  BY <1>7, RoutingFrame
<1>8. ASSUME NEW a \in Agents,
             \/ \E h \in Handlers :
                  Receive(a, h) \/ HandlerStep(a, h) \/ WriteThrough(a, h)
             \/ SendNext(a) \/ Drop(a) \/ Restart(a) \/ Crash(a) \/ Start(a)
      PROVE  UNCHANGED <<registry, owner, req>>
  BY <1>8, Zenon DEF Receive, HandlerStep, Apply, Reject, Report, WriteThrough,
              SendNext, Drop, Restart, Crash, Start, Stopped, server
<1>9. CASE UNCHANGED vars
  BY <1>7, <1>9 DEF vars
<1> QED
  BY <1>1, <1>2, <1>3, <1>4, <1>5, <1>6, <1>7, <1>8, <1>9
     DEF Next, RequestStep, Failure

\* A push never reaches the connection of another agent, however connections
\* are lost, reused and closed while requests are under way.
THEOREM RoutingCorrect == Spec => []Routing
<1>1. Spec => []Typed
  BY TypedInit, TypedStep, PTL DEF Spec
<1>2. Init => Routing
  BY DEF Init, Routing, NoRequest
<1> QED
  BY <1>1, <1>2, RoutingStep, PTL DEF Spec

-----------------------------------------------------------------------------
(* Restarts.  A handler writes through to the agent's file only while the    *)
(* restart that the renaming handler owes is still due.                      *)

Due(a) ==
  \/ dying[a]
  \/ \E h \in Handlers : task[a][h].pc = "report" /\ task[a][h].ok

ExposedDue == \A a \in Agents : exposed[a] # {} => Due(a)

RestartInv == RestartDue /\ ExposedDue

\* An invariant of a single agent's variables survives every step that leaves
\* them alone.
LEMMA RestartFrame ==
  ASSUME RestartInv, UNCHANGED <<live, running, task, exposed, dying>>
  PROVE  RestartInv'
  BY DEF RestartInv, RestartDue, ExposedDue, Due

\* So it does where a step makes a restart due, or loses none that was.
LEMMA RestartKept ==
  ASSUME RestartInv,
         \A b \in Agents : Due(b) => Due(b)',
         \A b \in Agents : \/ running'[b] = None
                           \/ running'[b] = running[b] /\ live'[b] = live[b]
                           \/ running'[b] = live'[b]
                           \/ Due(b)',
         \A b \in Agents : exposed'[b] \subseteq exposed[b] \/ Due(b)'
  PROVE  RestartInv'
  BY DEF RestartInv, RestartDue, ExposedDue, Due

LEMMA RestartStep == Typed /\ RestartInv /\ [Next]_vars => RestartInv'
<1> SUFFICES ASSUME Typed, RestartInv, [Next]_vars PROVE RestartInv'
  OBVIOUS
<1>1. CASE UNCHANGED <<live, running, task, exposed, dying>>
  BY <1>1, RestartFrame
<1>2. ASSUME \/ OperatorStep
             \/ \E r \in Requests : RequestStep(r)
             \/ \E c \in Conns : ConnectionStep(c)
             \/ \E a \in Agents, c \in Conns : Connect(a, c)
             \/ \E a \in Agents : SendNext(a) \/ Drop(a)
             \/ ServerCrash
      PROVE  UNCHANGED <<live, running, task, exposed, dying>>
  <2>1. CASE OperatorStep
    BY <2>1, OperatorCases DEF Begin, RecordFails, DeleteAgent, agent
  <2>2. ASSUME NEW r \in Requests, RequestStep(r)
        PROVE  UNCHANGED <<live, running, task, exposed, dying>>
    BY <2>2 DEF RequestStep, RecordPending, Lookup, Send, agent
  <2>3. ASSUME NEW c \in Conns, ConnectionStep(c)
        PROVE  UNCHANGED <<live, running, task, exposed, dying>>
    BY <2>3 DEF ConnectionStep, Register, TouchRow, Recreate, RecordStatus,
                Close, agent
  <2>4. ASSUME NEW a \in Agents,
               (\E c \in Conns : Connect(a, c)) \/ SendNext(a) \/ Drop(a)
        PROVE  UNCHANGED <<live, running, task, exposed, dying>>
    BY <2>4 DEF Connect, SendNext, Drop
  <2> QED
    BY <1>2, <2>1, <2>2, <2>3, <2>4 DEF ServerCrash
<1>3. ASSUME NEW a \in Agents, NEW h \in Handlers, Receive(a, h)
      PROVE  RestartInv'
  <2>1. /\ task[a][h].pc = "idle"
        /\ \A b \in Agents, g \in Handlers :
             b # a \/ g # h => task'[b][g] = task[b][g]
        /\ UNCHANGED <<live, running, exposed, dying>>
    BY <1>3 DEF Receive, Typed, TypeOK
  <2>2. \A b \in Agents : Due(b) => Due(b)'
    BY <2>1 DEF Due
  <2> QED
    BY <2>1, <2>2, RestartKept
<1>4. ASSUME NEW a \in Agents, NEW h \in Handlers, Apply(a, h)
      PROVE  RestartInv'
  <2>1. task[a][h] \in Task /\ task' = Returned(a, h, TRUE)
    BY <1>4 DEF Apply, Typed, TypeOK
  <2>2. task'[a][h].pc = "report" /\ task'[a][h].ok = TRUE
    BY <2>1 DEF Returned, Typed, TypeOK, Task
  <2>3. \A b \in Agents \ {a} : /\ task'[b] = task[b] /\ live'[b] = live[b]
                               /\ exposed'[b] = exposed[b]
    BY <1>4, <2>1 DEF Apply, Replaces, Returned, Typed, TypeOK
  <2>4. UNCHANGED <<running, dying>>
    BY <1>4 DEF Apply
  <2>5. Due(a)' /\ \A b \in Agents \ {a} : Due(b)' = Due(b)
    BY <2>2, <2>3, <2>4 DEF Due
  <2> QED
    BY <2>3, <2>4, <2>5, RestartKept
<1>5. ASSUME NEW a \in Agents, NEW h \in Handlers, Reject(a, h)
      PROVE  RestartInv'
  <2>1. /\ task[a][h].pc = "apply"
        /\ \A b \in Agents, g \in Handlers :
             b # a \/ g # h => task'[b][g] = task[b][g]
    BY <1>5 DEF Reject, Returned, Typed, TypeOK
  <2>2. /\ UNCHANGED <<live, running, dying>>
        /\ \A b \in Agents : exposed'[b] \subseteq exposed[b]
    BY <1>5 DEF Reject, Typed, TypeOK
  <2>3. \A b \in Agents : Due(b) => Due(b)'
    BY <2>1, <2>2 DEF Due
  <2> QED
    BY <2>2, <2>3, RestartKept
<1>6. ASSUME NEW a \in Agents, NEW h \in Handlers, Report(a, h)
      PROVE  RestartInv'
  <2>1. /\ \A b \in Agents, g \in Handlers :
             b # a \/ g # h => task'[b][g] = task[b][g]
        /\ UNCHANGED <<live, running, exposed>>
    BY <1>6 DEF Report, Typed, TypeOK
  <2>2. /\ task[a][h].ok => dying'[a]
        /\ \A b \in Agents : dying[b] => dying'[b]
    BY <1>6 DEF Report, ArmsRestart, Typed, TypeOK
  <2>3. \A b \in Agents : Due(b) => Due(b)'
    BY <2>1, <2>2 DEF Due
  <2> QED
    BY <2>1, <2>3, RestartKept
<1>7. ASSUME NEW a \in Agents, NEW h \in Handlers, WriteThrough(a, h)
      PROVE  RestartInv'
  <2>1. /\ exposed[a] # {} /\ UNCHANGED <<running, task, exposed, dying>>
        /\ \A b \in Agents \ {a} : live'[b] = live[b]
    BY <1>7 DEF WriteThrough, Replaces, Typed, TypeOK
  <2>2. \A b \in Agents : Due(b)' = Due(b)
    BY <2>1 DEF Due
  <2>3. Due(a)
    BY <2>1 DEF RestartInv, ExposedDue
  <2> QED
    BY <2>1, <2>2, <2>3, RestartKept
<1>8. ASSUME NEW a \in Agents, Restart(a) \/ Crash(a)
      PROVE  RestartInv'
  <2>1. /\ running' = [running EXCEPT ![a] = None]
        /\ dying' = [dying EXCEPT ![a] = FALSE]
        /\ task' = [task EXCEPT ![a] = [h \in Handlers |-> NoTask]]
        /\ exposed' = [exposed EXCEPT ![a] = {}]
        /\ live' = live
    BY <1>8 DEF Restart, Crash, Stopped
  <2> QED
    BY <2>1 DEF RestartInv, RestartDue, ExposedDue, Due, Typed, TypeOK
<1>9. ASSUME NEW a \in Agents, Start(a)
      PROVE  RestartInv'
  BY <1>9 DEF Start, RestartInv, RestartDue, ExposedDue, Due, Typed, TypeOK
<1>10. CASE UNCHANGED vars
  BY <1>1, <1>10 DEF vars
<1> QED
  BY <1>1, <1>2, <1>3, <1>4, <1>5, <1>6, <1>7, <1>8, <1>9, <1>10
     DEF Next, HandlerStep, Failure

\* An applied config is never left unloaded, whichever of several handlers
\* wrote the file last: a running process that is behind its config file has
\* its restart armed, or the handler about to arm it has yet to report.
THEOREM RestartCorrect == Spec => []RestartDue
<1>1. Spec => []Typed
  BY TypedInit, TypedStep, PTL DEF Spec
<1>2. Init => RestartInv
  BY DEF Init, RestartInv, RestartDue, ExposedDue
<1>3. RestartInv => RestartDue
  BY DEF RestartInv
<1> QED
  BY <1>1, <1>2, <1>3, RestartStep, PTL DEF Spec

-----------------------------------------------------------------------------
(* Overlaps.  Only handlers that are inside validateAndApply overlap, any     *)
(* two of them do, and history remembers their configs.                      *)

Overlapping ==
  \A a \in Agents, h \in Handlers :
    /\ near[a][h] # {} =>
         /\ h \in Applying(a)
         /\ near[a][h] \union {task[a][h].cfg} \subseteq mixed[a]
    /\ h \in exposed[a] => near[a][h] # {}
    /\ \A g \in Applying(a) \ {h} : h \in Applying(a) => near[a][h] # {}

LEMMA OverlapFrame ==
  ASSUME Overlapping, UNCHANGED <<task, near, exposed, mixed>>
  PROVE  Overlapping'
  BY DEF Overlapping, Applying

\* Both the new handler and those at work take note of one another.
LEMMA OverlapReceive ==
  ASSUME Typed, Overlapping, NEW a \in Agents, NEW h \in Handlers,
         Receive(a, h)
  PROVE  Overlapping'
<1> DEFINE c == Head(down[conn[a]])
           others == {task[a][g].cfg : g \in Applying(a)}
<1>1. /\ \A b \in Agents, g \in Handlers :
           b # a \/ g # h => task'[b][g] = task[b][g]
      /\ task[a][h].pc = "idle"
      /\ task'[a][h].pc = "apply" /\ task'[a][h].cfg = c
      /\ UNCHANGED exposed
  BY DEF Receive, Typed, TypeOK
<1>2. /\ \A b \in Agents \ {a} : near'[b] = near[b] /\ mixed'[b] = mixed[b]
      /\ near'[a][h] = others
      /\ \A g \in Handlers \ {h} :
           near'[a][g] = near[a][g] \union
                           (IF g \in Applying(a) THEN {c} ELSE {})
      /\ mixed'[a] = mixed[a] \union
                       (IF others = {} THEN {} ELSE others \union {c})
  BY Zenon DEF Receive, Typed, TypeOK
<1>3. /\ \A b \in Agents \ {a} : Applying(b)' = Applying(b)
      /\ Applying(a)' = Applying(a) \union {h} /\ h \notin Applying(a)
  BY <1>1 DEF Applying
<1>4. \A g \in Applying(a) : task[a][g].cfg \in others
  OBVIOUS
<1>5. Applying(a) # {} <=> others # {}
  OBVIOUS
<1> HIDE DEF c, others
<1>6. ASSUME NEW g \in Handlers
      PROVE  /\ near'[a][g] # {} =>
                  /\ g \in Applying(a)'
                  /\ near'[a][g] \union {task'[a][g].cfg} \subseteq mixed'[a]
             /\ g \in exposed'[a] => near'[a][g] # {}
             /\ \A f \in Applying(a)' \ {g} :
                  g \in Applying(a)' => near'[a][g] # {}
  <2>1. CASE g = h
    <3>1. h \notin exposed[a]
      BY <1>3 DEF Overlapping
    <3> QED
      BY <1>1, <1>2, <1>3, <1>5, <2>1, <3>1
  <2>2. CASE g # h /\ g \in Applying(a)
    <3>1. near'[a][g] = near[a][g] \union {c} /\ task'[a][g] = task[a][g]
      BY <1>1, <1>2, <2>2
    <3>2. mixed'[a] = mixed[a] \union others \union {c}
      BY <1>2, <1>5, <2>2
    <3>3. near[a][g] \subseteq mixed[a] /\ task[a][g].cfg \in others
      BY <1>4, <2>2 DEF Overlapping
    <3> QED
      BY <1>3, <2>2, <3>1, <3>2, <3>3
  <2>3. CASE g # h /\ g \notin Applying(a)
    BY <1>1, <1>2, <1>3, <2>3 DEF Overlapping
  <2> QED
    BY <2>1, <2>2, <2>3
<1>7. ASSUME NEW b \in Agents \ {a}, NEW g \in Handlers
      PROVE  /\ near'[b][g] # {} =>
                  /\ g \in Applying(b)'
                  /\ near'[b][g] \union {task'[b][g].cfg} \subseteq mixed'[b]
             /\ g \in exposed'[b] => near'[b][g] # {}
             /\ \A f \in Applying(b)' \ {g} :
                  g \in Applying(b)' => near'[b][g] # {}
  BY <1>1, <1>2, <1>3 DEF Overlapping
<1> QED
  BY <1>6, <1>7 DEF Overlapping

LEMMA OverlapReturn ==
  ASSUME Typed, Overlapping, NEW a \in Agents, NEW h \in Handlers,
         Apply(a, h) \/ Reject(a, h)
  PROVE  Overlapping'
<1>1. /\ \A b \in Agents, g \in Handlers :
           b # a \/ g # h => /\ task'[b][g] = task[b][g]
                            /\ near'[b][g] = near[b][g]
      /\ task'[a][h].pc = "report" /\ near'[a][h] = {}
      /\ \A b \in Agents \ {a} : exposed'[b] = exposed[b]
      /\ \/ exposed'[a] = Applying(a) \ {h}
         \/ exposed'[a] = exposed[a] \ {h}
      /\ h \in Applying(a) /\ UNCHANGED mixed
  <2>1. task' = Returned(a, h, TRUE) \/ task' = Returned(a, h, FALSE)
    BY DEF Apply, Reject
  <2>2. /\ near' = [near EXCEPT ![a][h] = {}]
        /\ \/ exposed' = [exposed EXCEPT ![a] = Applying(a) \ {h}]
           \/ exposed' = [exposed EXCEPT ![a] = exposed[a] \ {h}]
        /\ h \in Applying(a) /\ UNCHANGED mixed
    BY DEF Apply, Reject, Applying
  <2>3. /\ \A b \in Agents, g \in Handlers :
             b # a \/ g # h => task'[b][g] = task[b][g]
        /\ task'[a][h].pc = "report"
    BY <2>1, ReturnedOnly
  <2> QED
    BY <2>2, <2>3 DEF Typed, TypeOK
<1>2. /\ Applying(a)' = Applying(a) \ {h}
      /\ \A b \in Agents \ {a} : Applying(b)' = Applying(b)
  BY <1>1 DEF Applying
<1> QED
  BY <1>1, <1>2 DEF Overlapping

LEMMA OverlapEnds ==
  ASSUME Typed, Overlapping, NEW a \in Agents,
         Stopped(a) \/ \E h \in Handlers : Report(a, h)
  PROVE  Overlapping'
<1>1. CASE Stopped(a)
  <2>1. /\ \A b \in Agents \ {a} : /\ task'[b] = task[b] /\ near'[b] = near[b]
                                   /\ exposed'[b] = exposed[b]
        /\ exposed'[a] = {} /\ UNCHANGED mixed
        /\ \A h \in Handlers : task'[a][h].pc = "idle" /\ near'[a][h] = {}
    BY <1>1 DEF Stopped, NoTask, Typed, TypeOK
  <2>2. /\ Applying(a)' = {}
        /\ \A b \in Agents \ {a} : Applying(b)' = Applying(b)
    BY <2>1 DEF Applying
  <2> QED
    BY <2>1, <2>2 DEF Overlapping
<1>2. ASSUME NEW h \in Handlers, Report(a, h)
      PROVE  Overlapping'
  <2>1. /\ \A b \in Agents, g \in Handlers :
             b # a \/ g # h => task'[b][g] = task[b][g]
        /\ task[a][h].pc = "report" /\ task'[a][h].pc = "idle"
        /\ UNCHANGED <<near, exposed, mixed>>
    BY <1>2 DEF Report, NoTask, Typed, TypeOK
  <2>2. \A b \in Agents : Applying(b)' = Applying(b)
    BY <2>1 DEF Applying
  <2>3. near[a][h] = {}
    BY <2>1 DEF Overlapping, Applying
  <2> QED
    BY <2>1, <2>2, <2>3 DEF Overlapping
<1> QED
  BY <1>1, <1>2

LEMMA OverlapStep == Typed /\ Overlapping /\ [Next]_vars => Overlapping'
<1> SUFFICES ASSUME Typed, Overlapping, [Next]_vars PROVE Overlapping'
  OBVIOUS
<1>1. CASE OperatorStep
  BY <1>1, OperatorCases, OverlapFrame
     DEF Begin, RecordFails, DeleteAgent, agent
<1>2. ASSUME NEW r \in Requests, RequestStep(r)
      PROVE  Overlapping'
  BY <1>2, OverlapFrame DEF RequestStep, RecordPending, Lookup, Send, agent
<1>3. ASSUME NEW c \in Conns, ConnectionStep(c)
      PROVE  Overlapping'
  BY <1>3, OverlapFrame
     DEF ConnectionStep, Register, TouchRow, Recreate, RecordStatus, Close,
         agent
<1>4. ASSUME NEW a \in Agents,
             \/ \E c \in Conns : Connect(a, c)
             \/ \E h \in Handlers : WriteThrough(a, h)
             \/ SendNext(a) \/ Drop(a) \/ Start(a)
      PROVE  Overlapping'
  BY <1>4, OverlapFrame DEF Connect, WriteThrough, SendNext, Drop, Start
<1>5. CASE ServerCrash \/ UNCHANGED vars
  BY <1>5, OverlapFrame DEF ServerCrash, vars
<1> QED
  BY <1>1, <1>2, <1>3, <1>4, <1>5, OverlapReceive, OverlapReturn, OverlapEnds
     DEF Next, HandlerStep, Failure, Restart, Crash

\* What h renames or writes through is accounted for in the histories.
LEMMA Replaced ==
  ASSUME Typed, Overlapping, NEW a \in Agents, NEW h \in Handlers,
         Apply(a, h) \/ WriteThrough(a, h)
  PROVE  /\ \A b \in Agents \ {a} :
              live'[b] = live[b] /\ applied'[b] = applied[b]
         /\ applied[a] \subseteq applied'[a] /\ UNCHANGED mixed
         /\ applied'[a] \subseteq
              applied[a] \union ({task[a][h].cfg} \intersect Valid)
                \union mixed[a]
         /\ live'[a] \in applied'[a] \/ (live'[a] = Torn /\ mixed[a] # {})
         /\ task[a][h].cfg \in applied'[a] \union mixed[a]
<1>1. PICK x \in Renamed(a, h) \union {task[a][h].cfg, Torn} :
        /\ Replaces(a, x) /\ UNCHANGED mixed /\ h \in Applying(a)
        /\ (near[a][h] = {} => x \in {task[a][h].cfg} \intersect Valid)
  <2>1. CASE Apply(a, h)
    BY <2>1 DEF Apply, Applying, Renamed
  <2>2. CASE WriteThrough(a, h)
    <3>1. near[a][h] # {}
      BY <2>2 DEF WriteThrough, Overlapping
    <3> QED
      BY <2>2, <3>1 DEF WriteThrough, Applying
  <2> QED
    BY <2>1, <2>2
<1>2. task[a][h].cfg \in Configs /\ near[a][h] \in SUBSET Configs
  BY <1>1 DEF Applying, Typed, TypeOK, TaskShape
<1>3. /\ \A b \in Agents \ {a} : live'[b] = live[b] /\ applied'[b] = applied[b]
      /\ live'[a] = x /\ applied'[a] = applied[a] \union ({x} \ {Torn})
  BY <1>1 DEF Replaces, Typed, TypeOK
<1>4. CASE near[a][h] = {}
  BY <1>1, <1>2, <1>3, <1>4, NoneFacts
<1>5. CASE near[a][h] # {}
  <2>1. near[a][h] \union {task[a][h].cfg} \subseteq mixed[a]
    BY <1>5 DEF Overlapping
  <2>2. x \in near[a][h] \union {task[a][h].cfg, Torn}
    BY <1>1, <1>5 DEF Renamed
  <2> QED
    BY <1>1, <1>3, <2>1, <2>2
<1> QED
  BY <1>4, <1>5

-----------------------------------------------------------------------------
(* Claims.  ClaimsHonest is not inductive by itself: what a handler is about *)
(* to report must be true already, a status must reach the wire of the agent *)
(* it is about, and a connection must start without a leftover message.      *)

HonestTasks ==
  \A a \in Agents, h \in Handlers :
    task[a][h].pc = "report" /\ task[a][h].ok =>
      task[a][h].cfg \in applied[a] \union mixed[a]

ConnOwned == \A a \in Agents : conn[a] # None => owner[conn[a]] = a

IdleServesNothing ==
  \A c \in Conns : serving[c].pc = "idle" => serving[c].msg = None

HonestInv == ClaimsHonest /\ HonestTasks /\ ConnOwned /\ IdleServesNothing

\* A step that touches none of the places a claim can be.
LEMMA HonestFrame ==
  ASSUME HonestInv,
         UNCHANGED <<owner, serving, up, conn, task, synced, out, applied,
                     mixed>>
  PROVE  HonestInv'
  BY DEF HonestInv, ClaimsHonest, Honest, HonestTasks, ConnOwned,
         IdleServesNothing

LEMMA HonestRegister ==
  ASSUME Typed, HonestInv, NEW c \in Conns, Register(c)
  PROVE  HonestInv'
<1>1. UNCHANGED <<owner, conn, task, synced, out, applied, mixed>>
  BY DEF Register, Registered, agent
<1>2. up[c] \in Seq(Maybe(Status)) /\ up[c] # << >> /\ owner[c] # None
  BY DEF Register, Registered, Typed, TypeOK
<1>3. /\ \A k \in Conns \ {c} : up'[k] = up[k] /\ serving'[k] = serving[k]
      /\ up'[c] = Tail(up[c])
      /\ serving'[c].pc = "touch" /\ serving'[c].msg = Head(up[c])
  BY DEF Register, Registered, Typed, TypeOK
<1>4. /\ Honest(owner[c], Head(up[c]))
      /\ \A i \in 1..Len(Tail(up[c])) : Honest(owner[c], Tail(up[c])[i])
  <2>1. \A i \in 1..Len(up[c]) : Honest(owner[c], up[c][i])
    BY <1>2 DEF HonestInv, ClaimsHonest
  <2>2. /\ 1 \in 1..Len(up[c]) /\ Head(up[c]) = up[c][1]
        /\ \A i \in 1..Len(Tail(up[c])) :
             i + 1 \in 1..Len(up[c]) /\ Tail(up[c])[i] = up[c][i + 1]
    BY <1>2
  <2> QED
    BY <2>1, <2>2
<1>5. ClaimsHonest'
  <2>1. ASSUME NEW k \in Conns, owner'[k] # None
        PROVE  /\ Honest(owner[k], serving[k].msg)'
               /\ \A i \in 1..Len(up'[k]) : Honest(owner[k], up[k][i])'
    <3>1. CASE k = c
      BY <1>1, <1>3, <1>4, <3>1 DEF Honest
    <3>2. CASE k # c
      BY <1>1, <1>3, <2>1, <3>2 DEF HonestInv, ClaimsHonest, Honest
    <3> QED
      BY <3>1, <3>2
  <2>2. ASSUME NEW a \in Agents
        PROVE  Honest(a, synced[a])' /\ Honest(a, out[a])'
    BY <1>1 DEF HonestInv, ClaimsHonest, Honest
  <2> QED
    BY <2>1, <2>2 DEF ClaimsHonest
<1> QED
  BY <1>1, <1>3, <1>5 DEF HonestInv, HonestTasks, ConnOwned, IdleServesNothing

LEMMA HonestRow ==
  ASSUME Typed, HonestInv, NEW c \in Conns, TouchRow(c) \/ RecordStatus(c)
  PROVE  HonestInv'
<1>1. UNCHANGED <<owner, up, conn, task, synced, out, applied, mixed>>
  BY DEF TouchRow, RecordStatus, wire, agent
<1>2. \A k \in Conns \ {c} : serving'[k] = serving[k]
  BY DEF TouchRow, RecordStatus, Typed, TypeOK
<1>3. \/ serving'[c] = NotServing
      \/ serving'[c].pc = "status" /\ serving'[c].msg = serving[c].msg
  BY DEF TouchRow, RecordStatus, Typed, TypeOK, Serving
<1>4. serving'[c].msg \in {None, serving[c].msg}
      /\ (serving'[c].pc = "idle" => serving'[c].msg = None)
  BY <1>3 DEF NotServing
<1> QED
  BY <1>1, <1>2, <1>4
     DEF HonestInv, ClaimsHonest, Honest, HonestTasks, ConnOwned,
         IdleServesNothing

LEMMA HonestClose ==
  ASSUME Typed, HonestInv, NEW c \in Conns, Close(c)
  PROVE  HonestInv'
<1>1. UNCHANGED <<serving, conn, task, synced, out, applied, mixed>>
  BY DEF Close, agent
<1>2. /\ \A k \in Conns \ {c} : up'[k] = up[k] /\ owner'[k] = owner[k]
      /\ owner'[c] = None
      /\ conn[owner[c]] # c
  BY DEF Close, Typed, TypeOK
<1>3. ClaimsHonest'
  BY <1>1, <1>2 DEF HonestInv, ClaimsHonest, Honest
<1>4. ConnOwned'
  BY <1>1, <1>2 DEF HonestInv, ConnOwned, Typed, TypeOK, Maybe
<1> QED
  BY <1>1, <1>3, <1>4 DEF HonestInv, HonestTasks, IdleServesNothing

LEMMA HonestConnect ==
  ASSUME Typed, HonestInv, NEW a \in Agents, NEW c \in Conns, Connect(a, c)
  PROVE  HonestInv'
<1>1. UNCHANGED <<serving, task, synced, applied, mixed>>
  BY DEF Connect
<1>2. /\ \A k \in Conns \ {c} : up'[k] = up[k] /\ owner'[k] = owner[k]
      /\ owner[c] = None /\ owner'[c] = a /\ up'[c] = <<synced[a]>>
      /\ \A b \in Agents \ {a} : conn'[b] = conn[b] /\ out'[b] = out[b]
      /\ conn'[a] = c /\ out'[a] = None
  BY DEF Connect, Typed, TypeOK
<1>3. serving[c].msg = None
  BY <1>2, NoneFacts DEF HonestInv, IdleServesNothing, Typed, ServingShape
<1>4. ClaimsHonest'
  <2>1. \A i \in 1..Len(up'[c]) : up'[c][i] = synced[a]
    BY <1>2
  <2> QED
    BY <1>1, <1>2, <1>3, <2>1 DEF HonestInv, ClaimsHonest, Honest
<1>5. ConnOwned'
  <2>1. ASSUME NEW b \in Agents, conn'[b] # None
        PROVE  owner'[conn'[b]] = b
    <3>1. CASE b = a
      BY <1>2, <3>1
    <3>2. CASE b # a
      <4>1. conn'[b] = conn[b] /\ conn[b] \in Conns /\ owner[conn[b]] = b
        BY <1>2, <2>1, <3>2 DEF HonestInv, ConnOwned, Typed, TypeOK, Maybe
      <4>2. conn[b] # c
        BY <1>2, <4>1, NoneFacts
      <4> QED
        BY <1>2, <4>1, <4>2
    <3> QED
      BY <3>1, <3>2
  <2> QED
    BY <2>1 DEF ConnOwned
<1> QED
  BY <1>1, <1>4, <1>5 DEF HonestInv, HonestTasks, IdleServesNothing

LEMMA HonestSendNext ==
  ASSUME Typed, HonestInv, NEW a \in Agents, SendNext(a)
  PROVE  HonestInv'
<1> DEFINE k == conn[a]
<1>1. UNCHANGED <<owner, serving, conn, task, synced, applied, mixed>>
  BY DEF SendNext, server
<1>2. k \in Conns /\ owner[k] = a /\ up[k] \in Seq(Maybe(Status))
      /\ out[a] \in Maybe(Status)
  BY DEF SendNext, MaySend, HonestInv, ConnOwned, Typed, TypeOK, Maybe
<1>3. /\ \A c \in Conns \ {k} : up'[c] = up[c]
      /\ up'[k] = Append(up[k], out[a])
      /\ \A b \in Agents \ {a} : out'[b] = out[b]
      /\ out'[a] = None
  BY <1>2 DEF SendNext, Typed, TypeOK
<1>4. \A i \in 1..Len(up'[k]) : Honest(a, up'[k][i])
  <2>1. \A i \in 1..Len(up'[k]) :
          up'[k][i] = out[a] \/ \E j \in 1..Len(up[k]) : up'[k][i] = up[k][j]
    BY <1>2, <1>3
  <2>2. Honest(a, out[a]) /\ \A j \in 1..Len(up[k]) : Honest(a, up[k][j])
    BY <1>2, NoneFacts DEF HonestInv, ClaimsHonest
  <2> QED
    BY <2>1, <2>2
<1> HIDE DEF k
<1>5. ClaimsHonest'
  BY <1>1, <1>2, <1>3, <1>4, Zenon DEF HonestInv, ClaimsHonest, Honest
<1> QED
  BY <1>1, <1>5 DEF HonestInv, HonestTasks, ConnOwned, IdleServesNothing

\* A handler's step changes the agent's own state only.
LEMMA HonestHandler ==
  ASSUME Typed, Overlapping, HonestInv, NEW a \in Agents, NEW h \in Handlers,
         Receive(a, h) \/ HandlerStep(a, h) \/ WriteThrough(a, h)
  PROVE  HonestInv'
<1>1. UNCHANGED <<owner, serving, up, conn>>
  BY DEF Receive, HandlerStep, Apply, Reject, Report, WriteThrough, server, wire
<1>2. task[a][h] \in Task
  BY DEF Typed, TypeOK
<1>3. ConnOwned' /\ IdleServesNothing'
  BY <1>1 DEF HonestInv, ConnOwned, IdleServesNothing
<1>4. \A b \in Agents, g \in Handlers :
        b # a \/ g # h => task'[b][g] = task[b][g]
  BY DEF Receive, HandlerStep, Apply, Reject, Report, WriteThrough, Returned,
         Typed, TypeOK
<1>5. \A b \in Agents : applied[b] \union mixed[b] \subseteq
                         (applied[b] \union mixed[b])'
  <2>1. CASE Apply(a, h) \/ WriteThrough(a, h)
    BY <2>1, Replaced
  <2>2. CASE Receive(a, h)
    <3>1. UNCHANGED applied
      BY <2>2 DEF Receive
    <3>2. \A b \in Agents : mixed[b] \subseteq mixed'[b]
      BY <2>2 DEF Receive, Typed, TypeOK
    <3> QED
      BY <3>1, <3>2
  <2>3. CASE Reject(a, h) \/ Report(a, h)
    BY <2>3 DEF Reject, Report
  <2> QED
    BY <2>1, <2>2, <2>3 DEF HandlerStep
<1>6. CASE ~ Report(a, h)
  <2>1. UNCHANGED <<synced, out>>
    BY <1>6 DEF Receive, HandlerStep, Apply, Reject, WriteThrough
  <2>2. task'[a][h].pc = "report" /\ task'[a][h].ok =>
          task'[a][h].cfg \in (applied[a] \union mixed[a])'
    <3>1. CASE Receive(a, h) \/ Reject(a, h)
      BY <1>2, <3>1 DEF Receive, Reject, Returned, Typed, TypeOK, Task
    <3>2. CASE Apply(a, h)
      <4>1. task'[a][h].cfg = task[a][h].cfg
        BY <1>2, <3>2 DEF Apply, Returned, Typed, TypeOK, Task
      <4> QED
        BY <3>2, <4>1, Replaced
    <3>3. CASE WriteThrough(a, h)
      <4>1. task'[a][h].pc = "apply"
        BY <3>3 DEF WriteThrough
      <4> QED
        BY <4>1
    <3> QED
      BY <1>6, <3>1, <3>2, <3>3 DEF HandlerStep
  <2>3. HonestTasks'
    BY <1>4, <1>5, <2>2 DEF HonestInv, HonestTasks
  <2>4. ClaimsHonest'
    BY <1>1, <1>5, <2>1
       DEF HonestInv, ClaimsHonest, Honest, Typed, TypeOK, Maybe
  <2> QED
    BY <1>3, <2>3, <2>4 DEF HonestInv
<1>7. CASE Report(a, h)
  <2> DEFINE s == [ok |-> task[a][h].ok, cfg |-> task[a][h].cfg]
  <2>1. UNCHANGED <<applied, mixed>> /\ task'[a][h].pc = "idle"
    BY <1>7 DEF Report, NoTask, Typed, TypeOK
  <2>2. Honest(a, s)
    BY <1>7 DEF Report, HonestInv, HonestTasks, Honest
  <2>3. /\ synced'[a] = s /\ out'[a] \in {s, out[a]}
        /\ \A b \in Agents \ {a} : synced'[b] = synced[b] /\ out'[b] = out[b]
    BY <1>7 DEF Report, ReportStatus, Typed, TypeOK
  <2> HIDE DEF s
  <2>4. HonestTasks'
    BY <1>4, <2>1 DEF HonestInv, HonestTasks
  <2>5. ClaimsHonest'
    BY <1>1, <2>1, <2>2, <2>3 DEF HonestInv, ClaimsHonest, Honest
  <2> QED
    BY <1>3, <2>4, <2>5 DEF HonestInv
<1> QED
  BY <1>6, <1>7

LEMMA HonestStopped ==
  ASSUME Typed, HonestInv, NEW a \in Agents, Stopped(a)
  PROVE  HonestInv'
<1>1. UNCHANGED <<owner, serving, up, applied, mixed>>
  BY DEF Stopped, server
<1>2. /\ \A b \in Agents \ {a} : /\ synced'[b] = synced[b] /\ out'[b] = out[b]
                                 /\ task'[b] = task[b] /\ conn'[b] = conn[b]
      /\ synced'[a] = None /\ out'[a] = None /\ conn'[a] = None
      /\ \A h \in Handlers : task'[a][h].pc = "idle"
  BY DEF Stopped, Disconnected, NoTask, Typed, TypeOK
<1> QED
  BY <1>1, <1>2 DEF HonestInv, ClaimsHonest, Honest, HonestTasks, ConnOwned,
                    IdleServesNothing

LEMMA HonestStep ==
  Typed /\ Overlapping /\ HonestInv /\ [Next]_vars => HonestInv'
<1> SUFFICES ASSUME Typed, Overlapping, HonestInv, [Next]_vars
             PROVE  HonestInv'
  OBVIOUS
<1>1. CASE OperatorStep
  BY <1>1, OperatorCases, HonestFrame
     DEF Begin, RecordFails, DeleteAgent, server, wire, agent
<1>2. ASSUME NEW r \in Requests, RequestStep(r)
      PROVE  HonestInv'
  BY <1>2, HonestFrame
     DEF RequestStep, RecordPending, Lookup, Send, server, wire, agent
<1>3. ASSUME NEW c \in Conns, ConnectionStep(c)
      PROVE  HonestInv'
  <2>1. CASE Recreate(c)
    BY <2>1, HonestFrame DEF Recreate, server, wire, agent
  <2> QED
    BY <1>3, <2>1, HonestRegister, HonestRow, HonestClose DEF ConnectionStep
<1>4. ASSUME NEW a \in Agents, Drop(a)
      PROVE  HonestInv'
  <2>1. /\ UNCHANGED <<owner, serving, up, task, synced, out, applied, mixed>>
        /\ \A b \in Agents : conn'[b] \in {None, conn[b]}
    BY <1>4 DEF Drop, Disconnected, server, Typed, TypeOK
  <2> QED
    BY <2>1 DEF HonestInv, ClaimsHonest, Honest, HonestTasks, ConnOwned,
                IdleServesNothing
<1>5. ASSUME NEW a \in Agents, Start(a)
      PROVE  HonestInv'
  BY <1>5, HonestFrame DEF Start, server, wire
<1>6. CASE ServerCrash
  BY <1>6 DEF ServerCrash, NotServing, HonestInv, ClaimsHonest, Honest,
              HonestTasks, ConnOwned, IdleServesNothing
<1>7. CASE UNCHANGED vars
  BY <1>7, HonestFrame DEF vars
<1> QED
  BY <1>1, <1>2, <1>3, <1>4, <1>5, <1>6, <1>7, HonestConnect, HonestSendNext,
     HonestHandler, HonestStopped DEF Next, Failure, Restart, Crash

LEMMA HonestAlways == Spec => [](Typed /\ Overlapping /\ HonestInv)
<1>1. Spec => []Typed
  BY TypedInit, TypedStep, PTL DEF Spec
<1>2. Init => Overlapping
  BY DEF Init, NoTask, Overlapping, Applying
<1>3. Init => HonestInv
  BY DEF Init, NotServing, NoTask, HonestInv, ClaimsHonest, Honest,
         HonestTasks, ConnOwned, IdleServesNothing
<1> QED
  BY <1>1, <1>2, <1>3, OverlapStep, HonestStep, PTL DEF Spec

\* An agent never tells the server it applied a config that did not replace
\* its file, unless another config was being applied at the same time, and no
\* message is ever attributed to another agent than the one that sent it.
THEOREM ClaimsCorrect == Spec => []ClaimsHonest
<1>1. HonestInv => ClaimsHonest
  BY DEF HonestInv
<1> QED
  BY <1>1, HonestAlways, PTL

-----------------------------------------------------------------------------
(* Provenance.  It needs Routing, so that Send appends to the right agent's  *)
(* connection, ConnOwned, so that an agent reads its own, and that offers    *)
(* wait only on the connection their agent has open, so that a connection    *)
(* is empty when it is closed and reused.                                    *)

OffersWaitWhereOpen ==
  \A c \in Conns : down[c] # << >> => owner[c] # None /\ conn[owner[c]] = c

WireInv == OffersAsked /\ OffersWaitWhereOpen

ProvInv == RequestsAsked /\ WireInv /\ AgentsAsked

\* Operators only ever ask for more.
LEMMA RequestsFrame ==
  ASSUME Typed, RequestsAsked,
         \A a \in Agents : offered[a] \subseteq offered'[a],
         \A r \in Requests :
           \/ req'[r].todo = {} /\ req'[r].at = None
           \/ /\ req'[r].cfg = req[r].cfg
              /\ req'[r].todo \union ({req'[r].at} \ {None}) \subseteq
                   req[r].todo \union ({req[r].at} \ {None})
  PROVE  RequestsAsked'
<1> SUFFICES ASSUME NEW r \in Requests,
                    NEW a \in req'[r].todo \union ({req'[r].at} \ {None})
             PROVE  req'[r].cfg \in offered'[a]
  BY DEF RequestsAsked
<1>1. /\ req'[r].cfg = req[r].cfg
      /\ a \in req[r].todo \union ({req[r].at} \ {None})
  OBVIOUS
<1>2. a \in Agents
  BY <1>1 DEF Typed, TypeOK, Request, Maybe
<1> QED
  BY <1>1, <1>2 DEF RequestsAsked

LEMMA WireFrame ==
  ASSUME Typed, WireInv, UNCHANGED <<down, owner, conn>>,
         \A a \in Agents : offered[a] \subseteq offered'[a]
  PROVE  WireInv'
<1>1. \A c \in Conns : owner[c] # None => owner[c] \in Agents
  BY DEF Typed, TypeOK, Maybe
<1> QED
  BY <1>1 DEF WireInv, OffersAsked, OffersWaitWhereOpen

LEMMA AgentsFrame ==
  ASSUME AgentsAsked, UNCHANGED <<row, task, live, running, applied, mixed>>,
         \A a \in Agents : offered[a] \subseteq offered'[a]
  PROVE  AgentsAsked'
  BY DEF AgentsAsked, Maybe

LEMMA ProvBegin ==
  ASSUME Typed, ProvInv, NEW r \in Requests, NEW T \in SUBSET Agents,
         NEW c \in Configs, Begin(r, T, c)
  PROVE  ProvInv'
<1>1. \A a \in Agents : offered[a] \subseteq offered'[a]
  BY DEF Begin
<1>2. UNCHANGED <<row, owner, down, conn, live, running, task, applied,
                  mixed>>
  BY DEF Begin, store, server, wire, agent
<1>3. /\ \A s \in Requests \ {r} : req'[s] = req[s]
      /\ req'[r].cfg = c /\ req'[r].todo = T /\ req'[r].at = None
  BY DEF Begin, Typed, TypeOK
<1>4. \A a \in T : c \in offered'[a]
  BY DEF Begin
<1>5. RequestsAsked'
  <2> SUFFICES ASSUME NEW s \in Requests,
                      NEW a \in req'[s].todo \union ({req'[s].at} \ {None})
               PROVE  req'[s].cfg \in offered'[a]
    BY DEF RequestsAsked
  <2>1. CASE s = r
    BY <1>3, <1>4, <2>1
  <2>2. CASE s # r
    <3>1. req'[s] = req[s]
      BY <1>3, <2>2
    <3>2. a \in Agents
      BY <3>1 DEF Typed, TypeOK, Request, Maybe
    <3> QED
      BY <1>1, <3>1, <3>2 DEF ProvInv, RequestsAsked
  <2> QED
    BY <2>1, <2>2
<1> QED
  BY <1>1, <1>2, <1>5, WireFrame, AgentsFrame DEF ProvInv

LEMMA ProvRecordPending ==
  ASSUME Typed, ProvInv, NEW r \in Requests, RecordPending(r)
  PROVE  ProvInv'
<1>1. PICK a \in req[r].todo :
        /\ row' = [row EXCEPT ![a] = WithPending(@, req[r].cfg)]
        /\ req' = [req EXCEPT ![r].pc = "lookup", ![r].todo = @ \ {a},
                              ![r].at = a]
  BY DEF RecordPending
<1>2. UNCHANGED <<owner, down, conn, live, running, task, applied, mixed,
                  offered>>
  BY DEF RecordPending, server, wire, agent
<1>3. a \in Agents /\ row[a] \in Row /\ req[r] \in Request
  BY DEF Typed, TypeOK, Request
<1>4. /\ \A s \in Requests \ {r} : req'[s] = req[s]
      /\ req'[r].cfg = req[r].cfg /\ req'[r].at = a
      /\ req'[r].todo = req[r].todo \ {a}
  BY <1>1, <1>3 DEF Typed, TypeOK, Request
<1>5. req[r].cfg \in offered[a]
  BY DEF ProvInv, RequestsAsked
<1>6. /\ \A b \in Agents \ {a} : row'[b] = row[b]
      /\ row'[a].pending = req[r].cfg /\ row'[a].lkg = row[a].lkg
  BY <1>1, <1>3 DEF WithPending, Typed, TypeOK, Row
<1>7. RequestsAsked'
  BY <1>2, <1>4 DEF ProvInv, RequestsAsked
<1>8. AgentsAsked'
  BY <1>2, <1>5, <1>6 DEF ProvInv, AgentsAsked, Maybe
<1> QED
  BY <1>2, <1>7, <1>8, WireFrame DEF ProvInv

\* Lookup and RecordFails only let go of targets.
LEMMA TargetsLeft ==
  ASSUME Typed, NEW r \in Requests, Lookup(r) \/ RecordFails(r)
  PROVE  /\ \A s \in Requests \ {r} : req'[s] = req[s]
         /\ req'[r].todo \subseteq req[r].todo
         /\ req'[r].at \in {None, req[r].at}
         /\ req'[r] = NoRequest \/ req'[r].cfg = req[r].cfg
<1>1. req[r] \in Request
  BY DEF Typed, TypeOK
<1>2. ASSUME NEW rest \in SUBSET req[r].todo,
             req' = [req EXCEPT ![r] = NextTarget(r, rest)]
      PROVE  /\ \A s \in Requests \ {r} : req'[s] = req[s]
             /\ req'[r].todo \subseteq req[r].todo /\ req'[r].at = None
             /\ req'[r] = NoRequest \/ req'[r].cfg = req[r].cfg
  <2>1. /\ req'[r] = NextTarget(r, rest)
        /\ \A s \in Requests \ {r} : req'[s] = req[s]
    BY <1>2 DEF Typed, TypeOK
  <2> QED
    BY <1>1, <2>1, NextTargetTyped DEF NextTarget
<1>3. CASE RecordFails(r)
  <2>1. PICK b \in req[r].todo :
          req' = [req EXCEPT ![r] = NextTarget(r, req[r].todo \ {b})]
    BY <1>3 DEF RecordFails
  <2> QED
    BY <1>2, <2>1
<1>4. CASE Lookup(r)
  <2> DEFINE k == registry[req[r].at]
  <2>1. CASE k = None
    BY <1>2, <1>4, <2>1 DEF Lookup
  <2>2. CASE k # None
    <3>1. /\ req'[r] = [req[r] EXCEPT !.pc = "send", !.conn = k]
          /\ \A s \in Requests \ {r} : req'[s] = req[s]
      BY <1>4, <2>2 DEF Lookup, Typed, TypeOK
    <3> QED
      BY <1>1, <3>1 DEF Request
  <2> QED
    BY <2>1, <2>2
<1> QED
  BY <1>3, <1>4

LEMMA ProvRequestEnds ==
  ASSUME Typed, ProvInv, NEW r \in Requests, Lookup(r) \/ RecordFails(r)
  PROVE  ProvInv'
<1>1. UNCHANGED <<row, owner, down, conn, live, running, task, applied, mixed,
                  offered>>
  BY DEF Lookup, RecordFails, store, server, wire, agent
<1>2. \A s \in Requests :
        \/ req'[s].todo = {} /\ req'[s].at = None
        \/ /\ req'[s].cfg = req[s].cfg
           /\ req'[s].todo \union ({req'[s].at} \ {None}) \subseteq
                req[s].todo \union ({req[s].at} \ {None})
  BY TargetsLeft DEF NoRequest
<1>3. RequestsAsked'
  BY <1>1, <1>2, RequestsFrame DEF ProvInv
<1> QED
  BY <1>1, <1>3, WireFrame, AgentsFrame DEF ProvInv

LEMMA ProvSend ==
  ASSUME Typed, Routing, ProvInv, NEW r \in Requests, Send(r)
  PROVE  ProvInv'
<1> DEFINE k == req[r].conn
<1>1. UNCHANGED <<row, owner, conn, live, running, task, applied, mixed,
                  offered>>
  BY DEF Send, store, server, agent
<1>2. req[r] \in Request /\ k \in Conns /\ req[r].at \in Agents
      /\ req[r].cfg \in Configs
  BY DEF Send, Typed, TypeOK, RequestShape
<1>3. RequestsAsked'
  <2>1. /\ \A s \in Requests \ {r} : req'[s] = req[s]
        /\ req'[r] = NextTarget(r, req[r].todo)
    BY DEF Send, Typed, TypeOK
  <2>2. \/ req'[r] = NoRequest
        \/ /\ req'[r].cfg = req[r].cfg /\ req'[r].todo = req[r].todo
           /\ req'[r].at = None
    BY <1>2, <2>1 DEF NextTarget
  <2> QED
    BY <1>1, <2>1, <2>2, RequestsFrame DEF NoRequest, ProvInv
<1>4. \A c \in Conns \ {k} : down'[c] = down[c]
  BY DEF Send, Typed, TypeOK
<1>5. CASE owner[k] # None /\ conn[owner[k]] = k
  <2>1. down'[k] = Append(down[k], req[r].cfg) /\ down[k] \in Seq(Configs)
    BY <1>2, <1>5 DEF Send, Typed, TypeOK
  <2>2. owner[k] = req[r].at
    BY <1>5 DEF Send, Routing
  <2>3. req[r].cfg \in offered[owner[k]]
    BY <1>2, <2>2, NoneFacts DEF ProvInv, RequestsAsked
  <2>4. \A i \in 1..Len(down'[k]) :
          \/ down'[k][i] = req[r].cfg
          \/ \E j \in 1..Len(down[k]) : down'[k][i] = down[k][j]
    BY <1>2, <2>1
  <2>5. \A j \in 1..Len(down[k]) : down[k][j] \in offered[owner[k]]
    <3>1. Len(down[k]) > 0 => down[k] # << >>
      BY <2>1
    <3> QED
      BY <1>2, <2>1, <3>1 DEF ProvInv, WireInv, OffersAsked
  <2> HIDE DEF k
  <2>6. WireInv'
    BY <1>1, <1>2, <1>4, <1>5, <2>3, <2>4, <2>5
       DEF ProvInv, WireInv, OffersAsked, OffersWaitWhereOpen
  <2> QED
    BY <1>1, <1>3, <2>6, AgentsFrame DEF ProvInv
<1>6. CASE ~ (owner[k] # None /\ conn[owner[k]] = k)
  <2>1. UNCHANGED down
    BY <1>2, <1>6 DEF Send, Typed, TypeOK
  <2> QED
    BY <1>1, <1>3, <2>1, WireFrame, AgentsFrame DEF ProvInv
<1> QED
  BY <1>5, <1>6

\* The server's statements move configs between the columns of one row.
LEMMA ProvRow ==
  ASSUME Typed, ProvInv, NEW c \in Conns,
         TouchRow(c) \/ Recreate(c) \/ RecordStatus(c)
  PROVE  ProvInv'
<1> DEFINE o == owner[c]
<1>1. UNCHANGED <<req, owner, down, conn, live, running, task, applied, mixed,
                  offered>>
  BY DEF TouchRow, Recreate, RecordStatus, wire, agent, server
<1>2. o \in Agents /\ row[o] \in Row
  BY DEF TouchRow, Recreate, RecordStatus, Typed, TypeOK, ServingShape
<1>3. \A a \in Agents \ {o} : row'[a] = row[a]
  BY <1>2 DEF TouchRow, Recreate, RecordStatus, Typed, TypeOK
<1>4. {row'[o].pending, row'[o].lkg} \subseteq
        {None, row[o].pending, row[o].lkg}
  <2>1. CASE TouchRow(c) \/ Recreate(c)
    BY <1>2, <2>1 DEF TouchRow, Recreate, Typed, TypeOK, Row
  <2>2. CASE RecordStatus(c)
    <3>1. row'[o] \in {row[o], Promoted(row[o]), Failed(row[o])}
      BY <1>2, <2>2 DEF RecordStatus, Typed, TypeOK
    <3> QED
      BY <1>2, <3>1 DEF Promoted, Failed, Row
  <2> QED
    BY <2>1, <2>2
<1>5. AgentsAsked'
  BY <1>1, <1>2, <1>3, <1>4 DEF ProvInv, AgentsAsked, Maybe
<1> QED
  BY <1>1, <1>5, WireFrame, RequestsFrame DEF ProvInv

LEMMA ProvDelete ==
  ASSUME Typed, ProvInv, NEW a \in Agents, DeleteAgent(a)
  PROVE  ProvInv'
<1>1. UNCHANGED <<req, owner, down, conn, live, running, task, applied, mixed,
                  offered>>
  BY DEF DeleteAgent, server, wire, agent
<1>2. row'[a] = NoRow /\ \A b \in Agents \ {a} : row'[b] = row[b]
  BY DEF DeleteAgent, Typed, TypeOK
<1>3. AgentsAsked'
  BY <1>1, <1>2 DEF NoRow, ProvInv, AgentsAsked, Maybe
<1> QED
  BY <1>1, <1>3, WireFrame, RequestsFrame DEF ProvInv

\* Nothing waits on a connection when it closes or when it is reused.
LEMMA ProvCloseConnect ==
  ASSUME Typed, ProvInv, NEW c \in Conns,
         Close(c) \/ \E a \in Agents : Connect(a, c)
  PROVE  ProvInv'
<1>1. UNCHANGED <<row, req, down, live, running, task, applied, mixed,
                  offered>>
  BY DEF Close, Connect, store, agent
<1>2. CASE Close(c)
  <2>1. /\ \A k \in Conns \ {c} : owner'[k] = owner[k]
        /\ UNCHANGED conn /\ conn[owner[c]] # c
    BY <1>2 DEF Close, agent, Typed, TypeOK
  <2>2. down[c] = << >>
    BY <2>1 DEF ProvInv, WireInv, OffersWaitWhereOpen
  <2> QED
    BY <1>1, <2>1, <2>2, RequestsFrame, AgentsFrame
       DEF ProvInv, WireInv, OffersAsked, OffersWaitWhereOpen
<1>3. ASSUME NEW a \in Agents, Connect(a, c)
      PROVE  ProvInv'
  <2>1. /\ \A k \in Conns \ {c} : owner'[k] = owner[k]
        /\ owner[c] = None /\ conn[a] = None
        /\ \A b \in Agents \ {a} : conn'[b] = conn[b]
    BY <1>3 DEF Connect, Typed, TypeOK
  <2>2. down[c] = << >>
    BY <2>1 DEF ProvInv, WireInv, OffersAsked
  <2>3. ASSUME NEW k \in Conns, down[k] # << >>
        PROVE  k # c /\ owner[k] \in Agents \ {a}
    BY <2>1, <2>2, <2>3, NoneFacts
       DEF ProvInv, WireInv, OffersWaitWhereOpen, Typed, TypeOK, Maybe
  <2>4. WireInv'
    BY <1>1, <2>1, <2>3
       DEF ProvInv, WireInv, OffersAsked, OffersWaitWhereOpen
  <2> QED
    BY <1>1, <2>4, RequestsFrame, AgentsFrame DEF ProvInv
<1> QED
  BY <1>2, <1>3

LEMMA ProvServerCrash ==
  ASSUME Typed, ProvInv, ServerCrash
  PROVE  ProvInv'
<1>1. RequestsAsked' /\ WireInv'
  BY DEF ServerCrash, NoRequest, RequestsAsked, WireInv, OffersAsked,
         OffersWaitWhereOpen
<1>2. AgentsAsked'
  BY AgentsFrame DEF ServerCrash, store, ProvInv
<1> QED
  BY <1>1, <1>2 DEF ProvInv

\* A lost connection takes the offers that wait on it along.
LEMMA WireDisconnected ==
  ASSUME Typed, WireInv, NEW a \in Agents, Disconnected(a),
         UNCHANGED <<owner, offered>>
  PROVE  WireInv'
<1>1. /\ \A b \in Agents \ {a} : conn'[b] = conn[b]
      /\ \A k \in Conns : down'[k] = IF k = conn[a] THEN << >> ELSE down[k]
  BY DEF Disconnected, Typed, TypeOK
<1>2. ASSUME NEW k \in Conns, down'[k] # << >>
      PROVE  down'[k] = down[k] /\ owner[k] \in Agents \ {a}
  <2>1. down'[k] = down[k] /\ k # conn[a]
    BY <1>1, <1>2
  <2> QED
    BY <1>2, <2>1 DEF WireInv, OffersWaitWhereOpen, Typed, TypeOK, Maybe
<1> QED
  BY <1>1, <1>2 DEF WireInv, OffersAsked, OffersWaitWhereOpen

LEMMA ProvDown ==
  ASSUME Typed, ProvInv, NEW a \in Agents, Drop(a) \/ Stopped(a)
  PROVE  ProvInv'
<1>1. /\ UNCHANGED <<row, req, owner, live, applied, mixed, offered>>
      /\ Disconnected(a)
  BY DEF Drop, Stopped, store, server
<1>2. \A b \in Agents :
        /\ running'[b] \in {None, running[b]}
        /\ \A h \in Handlers : task'[b][h].cfg \in {None, task[b][h].cfg}
  BY DEF Drop, Stopped, NoTask, Typed, TypeOK
<1>3. AgentsAsked'
  BY <1>1, <1>2 DEF ProvInv, AgentsAsked, Maybe
<1> QED
  BY <1>1, <1>3, WireDisconnected, RequestsFrame DEF ProvInv

LEMMA ProvReceive ==
  ASSUME Typed, ConnOwned, ProvInv, NEW a \in Agents, NEW h \in Handlers,
         Receive(a, h)
  PROVE  ProvInv'
<1>0. PICK k : k = conn[a]
  OBVIOUS
<1>1. UNCHANGED <<row, req, owner, conn, live, running, applied, offered>>
  BY DEF Receive, store, server
<1>2. k \in Conns /\ owner[k] = a /\ down[k] \in Seq(Configs) /\ down[k] # << >>
  BY <1>0 DEF Receive, ConnOwned, Typed, TypeOK, Maybe
<1>3. /\ \A c \in Conns \ {k} : down'[c] = down[c]
      /\ down'[k] = Tail(down[k])
      /\ task'[a][h].cfg = Head(down[k])
      /\ \A b \in Agents, g \in Handlers :
           b # a \/ g # h => task'[b][g] = task[b][g]
  BY <1>0, <1>2 DEF Receive, Typed, TypeOK
<1>4. \A i \in 1..Len(down[k]) : down[k][i] \in offered[a]
  BY <1>2 DEF ProvInv, WireInv, OffersAsked
<1>5. /\ Head(down[k]) \in offered[a]
      /\ \A i \in 1..Len(Tail(down[k])) : Tail(down[k])[i] \in offered[a]
  <2>1. /\ 1 \in 1..Len(down[k]) /\ Head(down[k]) = down[k][1]
        /\ \A i \in 1..Len(Tail(down[k])) :
             i + 1 \in 1..Len(down[k]) /\ Tail(down[k])[i] = down[k][i + 1]
    BY <1>2
  <2> QED
    BY <1>4, <2>1
<1>6. conn[owner[k]] = k
  BY <1>0, <1>2
<1>7. WireInv'
  BY <1>1, <1>2, <1>3, <1>5, <1>6, NoneFacts, Zenon
     DEF ProvInv, WireInv, OffersAsked, OffersWaitWhereOpen
<1>8. /\ \A b \in Agents : mixed[b] \subseteq mixed'[b]
      /\ \A b \in Agents : mixed'[b] \subseteq offered[b]
  <2> DEFINE others == {task[a][g].cfg : g \in Applying(a)}
  <2>1. others \subseteq offered[a]
    BY NoneFacts DEF Applying, Typed, TaskShape, ProvInv, AgentsAsked, Maybe
  <2>2. /\ \A b \in Agents \ {a} : mixed'[b] = mixed[b]
        /\ mixed'[a] = mixed[a] \union
             (IF others = {} THEN {} ELSE others \union {Head(down[k])})
    BY <1>0 DEF Receive, Typed, TypeOK
  <2> HIDE DEF others
  <2> QED
    BY <1>5, <2>1, <2>2 DEF ProvInv, AgentsAsked
<1>9. AgentsAsked'
  BY <1>1, <1>3, <1>5, <1>8 DEF ProvInv, AgentsAsked, Maybe
<1> QED
  BY <1>1, <1>7, <1>9, RequestsFrame DEF ProvInv

LEMMA ProvHandler ==
  ASSUME Typed, Overlapping, ProvInv, NEW a \in Agents, NEW h \in Handlers,
         HandlerStep(a, h) \/ WriteThrough(a, h)
  PROVE  ProvInv'
<1>1. UNCHANGED <<row, req, owner, down, conn, running, offered, mixed>>
  BY DEF HandlerStep, Apply, Reject, Report, WriteThrough, store, server, wire
<1>2. \A b \in Agents, g \in Handlers :
        task'[b][g].cfg \in {None, task[b][g].cfg}
  <2>1. \/ task' = [task EXCEPT ![a][h] = NoTask]
        \/ task' = Returned(a, h, TRUE) \/ task' = Returned(a, h, FALSE)
        \/ task' = task
    BY DEF HandlerStep, Apply, Reject, Report, WriteThrough
  <2>2. /\ \A b \in Agents, g \in Handlers :
             b # a \/ g # h => task'[b][g] = task[b][g]
        /\ task'[a][h].cfg \in {None, task[a][h].cfg}
    <3>1. CASE task' = [task EXCEPT ![a][h] = NoTask]
      BY <3>1 DEF NoTask, Typed, TypeOK
    <3> QED
      BY <2>1, <3>1, ReturnedOnly
  <2> QED
    BY <2>2
<1>3. CASE Apply(a, h) \/ WriteThrough(a, h)
  <2>1. /\ applied[a] \subseteq applied'[a]
        /\ applied'[a] \subseteq
             applied[a] \union ({task[a][h].cfg} \intersect Valid)
               \union mixed[a]
        /\ live'[a] \in applied'[a] \/ (live'[a] = Torn /\ mixed[a] # {})
        /\ \A b \in Agents \ {a} :
             live'[b] = live[b] /\ applied'[b] = applied[b]
    BY <1>3, Replaced
  <2>2. task[a][h].cfg \in Valid => task[a][h].cfg \in offered[a]
    BY NoneFacts DEF ProvInv, AgentsAsked, Maybe
  <2>3. AgentsAsked'
    <3>1. ASSUME NEW b \in Agents
          PROVE  applied[b] \subseteq applied'[b]
      BY <2>1
    <3>2. ASSUME NEW b \in Agents
          PROVE  /\ applied'[b] \subseteq
                      offered[b] \intersect (Valid \union mixed[b])
                 /\ live'[b] \in applied'[b] \union {InitialConfig, None}
                                  \union (IF mixed[b] = {} THEN {} ELSE {Torn})
      BY <2>1, <2>2 DEF ProvInv, AgentsAsked, Maybe
    <3> QED
      BY <1>1, <1>2, <3>1, <3>2 DEF ProvInv, AgentsAsked, Maybe
  <2> QED
    BY <1>1, <2>3, WireFrame, RequestsFrame DEF ProvInv
<1>4. CASE Reject(a, h) \/ Report(a, h)
  <2>1. UNCHANGED <<live, applied>>
    BY <1>4 DEF Reject, Report
  <2>2. AgentsAsked'
    BY <1>1, <1>2, <2>1 DEF ProvInv, AgentsAsked, Maybe
  <2> QED
    BY <1>1, <2>2, WireFrame, RequestsFrame DEF ProvInv
<1> QED
  BY <1>3, <1>4 DEF HandlerStep

LEMMA ProvStart ==
  ASSUME Typed, ProvInv, NEW a \in Agents, Start(a)
  PROVE  ProvInv'
<1>1. UNCHANGED <<row, req, owner, down, conn, live, task, applied, mixed,
                  offered>>
  BY DEF Start, store, server, wire
<1>2. \A b \in Agents : running'[b] \in {live[b], running[b]}
  BY DEF Start, Typed, TypeOK
<1>3. AgentsAsked'
  BY <1>1, <1>2 DEF ProvInv, AgentsAsked
<1> QED
  BY <1>1, <1>3, WireFrame, RequestsFrame DEF ProvInv

LEMMA ProvStep ==
  /\ Typed /\ Overlapping /\ Routing /\ HonestInv /\ ProvInv /\ [Next]_vars
  => ProvInv'
<1> SUFFICES ASSUME Typed, Overlapping, Routing, HonestInv, ProvInv, [Next]_vars
             PROVE  ProvInv'
  OBVIOUS
<1>1. CASE OperatorStep
  BY <1>1, OperatorCases, ProvBegin, ProvRequestEnds, ProvDelete
<1>2. ASSUME NEW r \in Requests, RequestStep(r)
      PROVE  ProvInv'
  BY <1>2, ProvRecordPending, ProvRequestEnds, ProvSend DEF RequestStep
<1>3. CASE UNCHANGED <<row, req, owner, down, conn, live, running, task,
                       applied, mixed, offered>>
  BY <1>3, RequestsFrame, WireFrame, AgentsFrame DEF ProvInv
<1>4. ASSUME NEW c \in Conns, ConnectionStep(c)
      PROVE  ProvInv'
  <2>1. CASE Register(c)
    BY <1>3, <2>1 DEF Register, store, agent
  <2> QED
    BY <1>4, <2>1, ProvRow, ProvCloseConnect DEF ConnectionStep
<1>5. ASSUME NEW a \in Agents, SendNext(a)
      PROVE  ProvInv'
  BY <1>3, <1>5 DEF SendNext, store, server
<1>6. ASSUME NEW a \in Agents, NEW h \in Handlers,
             Receive(a, h) \/ HandlerStep(a, h) \/ WriteThrough(a, h)
      PROVE  ProvInv'
  BY <1>6, ProvReceive, ProvHandler DEF HonestInv
<1>7. CASE UNCHANGED vars
  BY <1>3, <1>7 DEF vars
<1> QED
  BY <1>1, <1>2, <1>4, <1>5, <1>6, <1>7, ProvCloseConnect, ProvServerCrash,
     ProvDown, ProvStart DEF Next, Failure, Restart, Crash

\* What the properties of this module need of one another, together.
LEMMA ProvAlways ==
  Spec => [](Typed /\ Overlapping /\ Routing /\ HonestInv /\ ProvInv)
<1>1. Init => ProvInv
  BY DEF Init, NoRow, NoRequest, NoTask, ProvInv, RequestsAsked, WireInv,
         OffersAsked, OffersWaitWhereOpen, AgentsAsked, Maybe
<1> QED
  BY <1>1, HonestAlways, RoutingCorrect, ProvStep, PTL DEF Spec

\* No agent is ever sent, shown as running, or made to run a config that no
\* operator asked for it, across bulk pushes, rollbacks, lost and reused
\* connections, deleted rows and crashes of either side; and only configs
\* applied at the same time can leave an invalid one, or a mixture, behind.
THEOREM ProvenanceCorrect == Spec => []Provenance
<1>1. ProvInv => Provenance
  BY DEF ProvInv, WireInv, Provenance
<1> QED
  BY <1>1, ProvAlways, PTL

-----------------------------------------------------------------------------
(* One push at a time.  When operators wait until an agent has settled, its   *)
(* push is asked for by one request, on the wire once, or worked on by one   *)
(* handler, whatever fails: so no two handlers of an agent overlap.          *)

Targets(r) == req[r].todo \union ({req[r].at} \ {None})

Asking(a) == \E r \in Requests : a \in Targets(r)

Offering(a) == \E c \in Conns : owner[c] = a /\ down[c] # << >>

Working(a) == \E h \in Handlers : task[a][h].pc # "idle"

OneStage ==
  \A a \in Agents :
    /\ Asking(a) => ~ Offering(a) /\ ~ Working(a)
    /\ Offering(a) => ~ Working(a)

\* One request asks, and it asks once.
OneRequest ==
  /\ \A r, s \in Requests, a \in Agents :
       a \in Targets(r) /\ a \in Targets(s) => r = s
  /\ \A r \in Requests : req[r].at \notin req[r].todo

OneOffer == \A c \in Conns : Len(down[c]) <= 1

OneTask ==
  \A a \in Agents : \A h, g \in Handlers :
    task[a][h].pc # "idle" /\ task[a][g].pc # "idle" => h = g

Lone == OneStage /\ OneRequest /\ OneOffer /\ OneTask

Untangled == \A a \in Agents : mixed[a] = {}

\* A step that starts nothing.
LEMMA LoneShrink ==
  ASSUME Typed, Lone,
         \A r \in Requests : /\ req'[r].todo \subseteq req[r].todo
                             /\ req'[r].at \in {None, req[r].at},
         \A c \in Conns : /\ down'[c] \in {<< >>, down[c]}
                          /\ \/ owner'[c] \in {None, owner[c]}
                             \/ down'[c] = << >>,
         \A a \in Agents, h \in Handlers :
           task'[a][h].pc # "idle" => task[a][h].pc # "idle"
  PROVE  Lone'
<1>1. \A r \in Requests, a \in Agents : a \in Targets(r)' => a \in Targets(r)
  BY DEF Targets
<1>2. \A a \in Agents : /\ Asking(a)' => Asking(a)
                        /\ Offering(a)' => Offering(a)
                        /\ Working(a)' => Working(a)
  BY <1>1, NoneFacts DEF Asking, Offering, Working
<1>3. OneStage'
  BY <1>2 DEF Lone, OneStage
<1>4. OneRequest'
  <2>1. \A r \in Requests : req'[r].at \notin req'[r].todo
    <3>1. \A r \in Requests : None \notin req[r].todo
      BY NoneFacts DEF Typed, TypeOK, Request
    <3> QED
      BY <3>1 DEF Lone, OneRequest
  <2> QED
    BY <1>1, <2>1 DEF Lone, OneRequest
<1>5. OneOffer' /\ OneTask'
  BY DEF Lone, OneOffer, OneTask
<1> QED
  BY <1>3, <1>4, <1>5 DEF Lone

LEMMA LoneFrame ==
  ASSUME Typed, Lone, UNCHANGED <<req, owner, down, task>>
  PROVE  Lone'
<1>1. \A r \in Requests : /\ req'[r].todo \subseteq req[r].todo
                          /\ req'[r].at \in {None, req[r].at}
  OBVIOUS
<1> QED
  BY <1>1, LoneShrink

LEMMA LoneBegin ==
  ASSUME Typed, Lone, NEW r \in Requests, NEW T \in SUBSET Agents,
         NEW c \in Configs, Begin(r, T, c), \A a \in T : Settled(a)
  PROVE  Lone'
<1>1. UNCHANGED <<owner, down, task>>
  BY DEF Begin, server, wire, agent
<1>2. /\ \A s \in Requests \ {r} : req'[s] = req[s]
      /\ req'[r].todo = T /\ req'[r].at = None
  BY DEF Begin, Typed, TypeOK
<1>3. \A a \in Agents : /\ Offering(a)' = Offering(a)
                        /\ Working(a)' = Working(a)
  BY <1>1 DEF Offering, Working
<1>4. \A a \in T : ~ Asking(a) /\ ~ Offering(a) /\ ~ Working(a)
  BY DEF Settled, Asking, Targets, Offering, Working
<1>5. \A s \in Requests, a \in Agents :
        a \in Targets(s)' => IF s = r THEN a \in T ELSE a \in Targets(s)
  BY <1>2 DEF Targets
<1>6. OneStage'
  BY <1>3, <1>4, <1>5 DEF Lone, OneStage, Asking
<1>7. OneRequest'
  <2>1. ASSUME NEW s \in Requests, NEW q \in Requests, NEW a \in Agents,
               a \in Targets(s)', a \in Targets(q)'
        PROVE  s = q
    <3>1. CASE a \in T
      BY <1>4, <1>5, <2>1, <3>1 DEF Asking
    <3>2. CASE a \notin T
      BY <1>5, <2>1, <3>2 DEF Lone, OneRequest
    <3> QED
      BY <3>1, <3>2
  <2>2. \A s \in Requests : req'[s].at \notin req'[s].todo
    BY <1>2, NoneFacts DEF Lone, OneRequest
  <2> QED
    BY <2>1, <2>2 DEF OneRequest
<1>8. OneOffer' /\ OneTask'
  BY <1>1 DEF Lone, OneOffer, OneTask
<1> QED
  BY <1>6, <1>7, <1>8 DEF Lone

LEMMA LoneRecordPending ==
  ASSUME Typed, Lone, NEW r \in Requests, RecordPending(r)
  PROVE  Lone'
<1>1. PICK b \in req[r].todo :
        req' = [req EXCEPT ![r].pc = "lookup", ![r].todo = @ \ {b}, ![r].at = b]
  BY Zenon DEF RecordPending
<1>2. UNCHANGED <<owner, down, task>>
  BY DEF RecordPending, server, wire, agent
<1>3. req[r] \in Request
  BY DEF Typed, TypeOK
<1>4. /\ \A s \in Requests \ {r} : req'[s] = req[s]
      /\ req'[r].at = b /\ req'[r].todo = req[r].todo \ {b}
  BY <1>1, <1>3 DEF Typed, TypeOK, Request
<1>5. \A a \in Agents : /\ Offering(a)' = Offering(a)
                        /\ Working(a)' = Working(a)
  BY <1>2 DEF Offering, Working
<1>6. \A s \in Requests, a \in Agents : a \in Targets(s)' => a \in Targets(s)
  <2> SUFFICES ASSUME NEW s \in Requests, NEW a \in Agents, a \in Targets(s)'
               PROVE  a \in Targets(s)
    OBVIOUS
  <2>1. CASE s = r
    BY <1>1, <1>4, <2>1, Zenon DEF Targets
  <2>2. CASE s # r
    BY <1>4, <2>2 DEF Targets
  <2> QED
    BY <2>1, <2>2
<1>7. OneStage'
  <2>1. \A a \in Agents : Asking(a)' => Asking(a)
    BY <1>6 DEF Asking
  <2> QED
    BY <1>5, <2>1 DEF Lone, OneStage
<1>8. OneRequest'
  <2>1. \A s \in Requests : req'[s].at \notin req'[s].todo
    BY <1>4 DEF Lone, OneRequest
  <2> QED
    BY <1>6, <2>1 DEF Lone, OneRequest
<1>9. OneOffer' /\ OneTask'
  BY <1>2 DEF Lone, OneOffer, OneTask
<1> QED
  BY <1>7, <1>8, <1>9 DEF Lone

\* A request that gives a target up, or goes on with it.
LEMMA LoneRequestEnds ==
  ASSUME Typed, Lone, NEW r \in Requests, Lookup(r) \/ RecordFails(r)
  PROVE  Lone'
<1>1. UNCHANGED <<owner, down, task>>
  BY DEF Lookup, RecordFails, server, wire, agent
<1>2. \A s \in Requests : /\ req'[s].todo \subseteq req[s].todo
                          /\ req'[s].at \in {None, req[s].at}
  BY TargetsLeft
<1> QED
  BY <1>1, <1>2, LoneShrink

LEMMA SendLeaves ==
  ASSUME Typed, NEW r \in Requests, Send(r)
  PROVE  /\ \A s \in Requests \ {r} : req'[s] = req[s]
         /\ req'[r].todo = req[r].todo /\ req'[r].at = None
<1>1. /\ req'[r] = NextTarget(r, req[r].todo)
      /\ \A s \in Requests \ {r} : req'[s] = req[s]
  BY DEF Send, Typed, TypeOK
<1> QED
  BY <1>1 DEF NextTarget, NoRequest

\* The offer takes the place of the request.
LEMMA LoneSend ==
  ASSUME Typed, Routing, Lone, NEW r \in Requests, Send(r)
  PROVE  Lone'
<1> DEFINE k == req[r].conn
<1>0. PICK b : b = req[r].at
  OBVIOUS
<1>1. UNCHANGED <<owner, task>>
  BY DEF Send, server, agent
<1>2. /\ req[r] \in Request /\ k \in Conns /\ b \in Agents
      /\ down[k] \in Seq(Configs) /\ req[r].cfg \in Configs
  BY <1>0 DEF Send, Typed, TypeOK, RequestShape
<1>3. /\ \A s \in Requests \ {r} : req'[s] = req[s]
      /\ req'[r].todo = req[r].todo /\ req'[r].at = None
  BY SendLeaves
<1>4. \A s \in Requests : /\ req'[s].todo = req[s].todo
                          /\ req'[s].at \in {None, req[s].at}
  BY <1>3
<1>5. CASE UNCHANGED down
  BY <1>1, <1>4, <1>5, LoneShrink
<1>6. CASE down' # down
  <2>1. /\ owner[k] = b
        /\ down'[k] = Append(down[k], req[r].cfg)
        /\ \A c \in Conns \ {k} : down'[c] = down[c]
    BY <1>0, <1>2, <1>6 DEF Send, Routing, Typed, TypeOK
  <2>2. Asking(b) /\ (\A s \in Requests : b \in Targets(s) => s = r)
    BY <1>0, <1>2, NoneFacts DEF Asking, Targets, Lone, OneRequest
  <2>3. ~ Asking(b)'
    <3>1. b \notin req'[r].todo /\ b # req'[r].at
      BY <1>0, <1>2, <1>3, NoneFacts DEF Lone, OneRequest
    <3>2. ASSUME NEW s \in Requests, b \in Targets(s)'
          PROVE  FALSE
      <4>1. CASE s = r
        BY <3>1, <3>2, <4>1 DEF Targets
      <4>2. CASE s # r
        BY <1>3, <2>2, <3>2, <4>2 DEF Targets
      <4> QED
        BY <4>1, <4>2
    <3> QED
      BY <3>2 DEF Asking
  <2>4. \A s \in Requests, a \in Agents : a \in Targets(s)' => a \in Targets(s)
    BY <1>4 DEF Targets
  <2>5. ~ Offering(b) /\ ~ Working(b)
    BY <1>2, <2>2 DEF Lone, OneStage
  <2>6. \A a \in Agents : /\ a # b => (Offering(a)' => Offering(a))
                          /\ Working(a)' = Working(a)
    BY <1>1, <2>1 DEF Offering, Working
  <2>7. OneStage'
    <3>1. \A a \in Agents : Asking(a)' => Asking(a)
      BY <2>4 DEF Asking
    <3> QED
      BY <2>3, <2>5, <2>6, <3>1 DEF Lone, OneStage
  <2>8. OneRequest'
    <3>1. \A s \in Requests : None \notin req[s].todo
      BY NoneFacts DEF Typed, TypeOK, Request
    <3>2. \A s \in Requests : req'[s].at \notin req'[s].todo
      BY <1>3, <3>1 DEF Lone, OneRequest
    <3> QED
      BY <2>4, <3>2 DEF Lone, OneRequest
  <2>9. OneOffer'
    <3>1. down[k] = << >>
      BY <1>2, <2>1, <2>5 DEF Offering
    <3>2. Len(down'[k]) = 1
      BY <1>2, <2>1, <3>1
    <3> QED
      BY <2>1, <3>2 DEF Lone, OneOffer
  <2>10. OneTask'
    BY <1>1 DEF Lone, OneTask
  <2> QED
    BY <2>7, <2>8, <2>9, <2>10 DEF Lone
<1> QED
  BY <1>5, <1>6

\* The handler takes the place of the offer, and finds no other at work.
LEMMA LoneReceive ==
  ASSUME Typed, HonestInv, WireInv, Lone, NEW b \in Agents,
         NEW h \in Handlers, Receive(b, h)
  PROVE  /\ Lone' /\ UNCHANGED mixed
         /\ Offering(b) /\ ~ Offering(b)'
         /\ \A a \in Agents \ {b} : /\ Offering(a)' = Offering(a)
                                    /\ Working(a)' = Working(a)
<1>0. PICK k : k = conn[b]
  OBVIOUS
<1>1. UNCHANGED <<req, owner>>
  BY DEF Receive, server
<1>2. k \in Conns /\ owner[k] = b /\ down[k] \in Seq(Configs) /\ down[k] # << >>
  BY <1>0 DEF Receive, HonestInv, ConnOwned, Typed, TypeOK, Maybe
<1>3. /\ \A c \in Conns \ {k} : down'[c] = down[c]
      /\ down'[k] = Tail(down[k])
      /\ \A a \in Agents, g \in Handlers :
           a # b \/ g # h => task'[a][g] = task[a][g]
  BY <1>0, <1>2 DEF Receive, Typed, TypeOK
<1>4. Offering(b) /\ ~ Asking(b) /\ ~ Working(b)
  BY <1>2 DEF Offering, Lone, OneStage
<1>5. down'[k] = << >>
  BY <1>2, <1>3 DEF Lone, OneOffer
<1>6. ~ Offering(b)'
  <2>1. \A c \in Conns \ {k} : owner[c] = b => down[c] = << >>
    BY <1>0, <1>2 DEF WireInv, OffersWaitWhereOpen
  <2> QED
    BY <1>1, <1>3, <1>5, <2>1 DEF Offering
<1>7. \A a \in Agents \ {b} : /\ Offering(a)' = Offering(a)
                              /\ Working(a)' = Working(a)
  BY <1>1, <1>2, <1>3 DEF Offering, Working
<1>8. \A a \in Agents : Asking(a)' = Asking(a)
  BY <1>1 DEF Asking, Targets
<1>9. OneStage'
  BY <1>4, <1>6, <1>7, <1>8 DEF Lone, OneStage
<1>10. OneOffer'
  BY <1>3, <1>5 DEF Lone, OneOffer
<1>11. OneTask'
  BY <1>3, <1>4 DEF Lone, OneTask, Working
<1>12. OneRequest'
  BY <1>1 DEF Lone, OneRequest, Targets
<1>13. UNCHANGED mixed
  <2>1. Applying(b) = {}
    BY <1>4 DEF Working, Applying
  <2>2. {task[b][g].cfg : g \in Applying(b)} = {}
    BY <2>1
  <2>3. mixed' = [mixed EXCEPT ![b] = @ \union {}]
    BY <2>2 DEF Receive
  <2> QED
    BY <2>3 DEF Typed, TypeOK
<1> QED
  BY <1>4, <1>6, <1>7, <1>9, <1>10, <1>11, <1>12, <1>13 DEF Lone

\* A handler gets on, or ends.
LEMMA HandlerLeaves ==
  ASSUME Typed, NEW b \in Agents, NEW h \in Handlers,
         HandlerStep(b, h) \/ WriteThrough(b, h)
  PROVE  \A a \in Agents, g \in Handlers :
           task'[a][g].pc # "idle" => task[a][g].pc # "idle"
<1>1. task[b][h].pc # "idle"
  BY DEF HandlerStep, Apply, Reject, Report, WriteThrough
<1>2. \/ task' = [task EXCEPT ![b][h] = NoTask]
      \/ task' = Returned(b, h, TRUE) \/ task' = Returned(b, h, FALSE)
      \/ task' = task
  BY DEF HandlerStep, Apply, Reject, Report, WriteThrough
<1>3. \A a \in Agents, g \in Handlers :
        a # b \/ g # h => task'[a][g] = task[a][g]
  <2>1. CASE task' = [task EXCEPT ![b][h] = NoTask]
    BY <2>1 DEF Typed, TypeOK
  <2> QED
    BY <1>2, <2>1, ReturnedOnly
<1> QED
  BY <1>1, <1>3

LEMMA LoneStep ==
  /\ Serial /\ Typed /\ Routing /\ HonestInv /\ ProvInv /\ Lone /\ [Next]_vars
  => Lone'
<1> SUFFICES ASSUME Serial, Typed, Routing, HonestInv, ProvInv, Lone,
                    [Next]_vars
             PROVE  Lone'
  OBVIOUS
<1>1. CASE OperatorStep
  <2>1. ASSUME NEW r \in Requests, NEW T \in SUBSET Agents,
               NEW c \in Configs, Begin(r, T, c)
        PROVE  Lone'
    BY <2>1, LoneBegin DEF Begin
  <2>2. ASSUME NEW b \in Agents, DeleteAgent(b)
        PROVE  Lone'
    BY <2>2, LoneFrame DEF DeleteAgent, server, wire, agent
  <2> QED
    BY <1>1, <2>1, <2>2, OperatorCases, LoneRequestEnds
<1>2. ASSUME NEW r \in Requests, RequestStep(r)
      PROVE  Lone'
  BY <1>2, LoneRecordPending, LoneRequestEnds, LoneSend DEF RequestStep
<1>3. ASSUME NEW c \in Conns, ConnectionStep(c)
      PROVE  Lone'
  <2>1. /\ UNCHANGED <<req, down, task>>
        /\ \A k \in Conns : owner'[k] \in {None, owner[k]}
    BY <1>3 DEF ConnectionStep, Register, TouchRow, Recreate, RecordStatus,
                Close, wire, agent, server, Typed, TypeOK
  <2>2. \A r \in Requests : /\ req'[r].todo \subseteq req[r].todo
                            /\ req'[r].at \in {None, req[r].at}
    BY <2>1
  <2> QED
    BY <2>1, <2>2, LoneShrink
<1>4. ASSUME NEW b \in Agents, NEW c \in Conns, Connect(b, c)
      PROVE  Lone'
  <2>1. /\ UNCHANGED <<req, down, task>>
        /\ owner[c] = None
        /\ \A k \in Conns \ {c} : owner'[k] = owner[k]
    BY <1>4 DEF Connect, Typed, TypeOK
  <2>2. down[c] = << >>
    BY <2>1 DEF ProvInv, WireInv, OffersAsked
  <2>3. \A r \in Requests : /\ req'[r].todo \subseteq req[r].todo
                            /\ req'[r].at \in {None, req[r].at}
    BY <2>1
  <2> QED
    BY <2>1, <2>2, <2>3, LoneShrink
<1>5. ASSUME NEW b \in Agents, NEW h \in Handlers, Receive(b, h)
      PROVE  Lone'
  BY <1>5, LoneReceive DEF ProvInv
<1>6. ASSUME NEW b \in Agents, NEW h \in Handlers,
             HandlerStep(b, h) \/ WriteThrough(b, h)
      PROVE  Lone'
  <2>1. UNCHANGED <<req, owner, down>>
    BY <1>6 DEF HandlerStep, Apply, Reject, Report, WriteThrough, server, wire
  <2>2. \A r \in Requests : /\ req'[r].todo \subseteq req[r].todo
                            /\ req'[r].at \in {None, req[r].at}
    BY <2>1
  <2> QED
    BY <1>6, <2>1, <2>2, HandlerLeaves, LoneShrink
<1>7. ASSUME NEW b \in Agents, Drop(b) \/ Stopped(b)
      PROVE  Lone'
  <2>1. UNCHANGED <<req, owner>>
    BY <1>7 DEF Drop, Stopped, server
  <2>2. \A k \in Conns : down'[k] \in {<< >>, down[k]}
    BY <1>7 DEF Drop, Stopped, Disconnected
  <2>3. \A a \in Agents, g \in Handlers :
          task'[a][g].pc # "idle" => task[a][g].pc # "idle"
    BY <1>7 DEF Drop, Stopped, NoTask, Typed, TypeOK
  <2>4. \A r \in Requests : /\ req'[r].todo \subseteq req[r].todo
                            /\ req'[r].at \in {None, req[r].at}
    BY <2>1
  <2> QED
    BY <2>1, <2>2, <2>3, <2>4, LoneShrink
<1>8. CASE ServerCrash
  <2>1. /\ UNCHANGED task
        /\ \A k \in Conns : owner'[k] = None /\ down'[k] = << >>
        /\ \A r \in Requests : req'[r].todo = {} /\ req'[r].at = None
    BY <1>8 DEF ServerCrash, NoRequest
  <2> QED
    BY <2>1, LoneShrink
<1>9. ASSUME NEW b \in Agents, SendNext(b) \/ Start(b)
      PROVE  Lone'
  BY <1>9, LoneFrame DEF SendNext, Start, server, wire
<1>10. CASE UNCHANGED vars
  BY <1>10, LoneFrame DEF vars
<1> QED
  BY <1>1, <1>2, <1>3, <1>4, <1>5, <1>6, <1>7, <1>8, <1>9, <1>10
     DEF Next, Failure, Restart, Crash

LEMMA UntangledStep ==
  /\ Typed /\ HonestInv /\ ProvInv /\ Lone /\ Untangled /\ [Next]_vars
  => Untangled'
<1> SUFFICES ASSUME Typed, HonestInv, ProvInv, Lone, Untangled, [Next]_vars
             PROVE  UNCHANGED mixed
  BY DEF Untangled
<1>1. ASSUME NEW b \in Agents, NEW h \in Handlers, Receive(b, h)
      PROVE  UNCHANGED mixed
  BY <1>1, LoneReceive DEF ProvInv
<1>2. CASE OperatorStep
  BY <1>2, OperatorCases DEF Begin, RecordFails, DeleteAgent
<1>3. ASSUME NEW r \in Requests, RequestStep(r)
      PROVE  UNCHANGED mixed
  BY <1>3 DEF RequestStep, RecordPending, Lookup, Send
<1>4. ASSUME NEW c \in Conns, ConnectionStep(c)
      PROVE  UNCHANGED mixed
  BY <1>4 DEF ConnectionStep, Register, TouchRow, Recreate, RecordStatus, Close
<1>5. ASSUME NEW a \in Agents,
             \/ \E c \in Conns : Connect(a, c)
             \/ \E h \in Handlers : HandlerStep(a, h) \/ WriteThrough(a, h)
             \/ SendNext(a) \/ Drop(a) \/ Stopped(a) \/ Start(a)
      PROVE  UNCHANGED mixed
  BY <1>5 DEF Connect, HandlerStep, Apply, Reject, Report, WriteThrough,
              SendNext, Drop, Stopped, Start
<1>6. CASE ServerCrash \/ UNCHANGED vars
  BY <1>6 DEF ServerCrash, vars
<1> QED
  BY <1>1, <1>2, <1>3, <1>4, <1>5, <1>6 DEF Next, Failure, Restart, Crash

LEMMA LoneAlways ==
  ASSUME Serial
  PROVE  Spec => [](/\ Typed /\ Overlapping /\ Routing /\ HonestInv /\ ProvInv
                    /\ Lone /\ Untangled)
<1>1. Init => Lone
  BY NoneFacts
     DEF Init, NoRequest, NoTask, Lone, OneStage, OneRequest, OneOffer, OneTask,
         Targets, Asking, Offering, Working
<1>2. Init => Untangled
  BY DEF Init, Untangled
<1>3. /\ Typed /\ Routing /\ HonestInv /\ ProvInv /\ Lone /\ [Next]_vars
      => Lone'
  BY LoneStep
<1> QED
  BY <1>1, <1>2, <1>3, ProvAlways, UntangledStep, PTL DEF Spec

FilesValid == \A a \in Agents : live[a] \in Valid

\* When operators wait until an agent has settled, no two of its offer handlers
\* meet in the one candidate file, whatever is lost or dies: the agent's config
\* file always holds a validated config (validateAndApply, opamp.go).
THEOREM WaitingKeepsFilesValid == ASSUME Serial
                                  PROVE  Spec => []FilesValid
<1>1. Typed /\ ProvInv /\ Untangled => FilesValid
  <2> SUFFICES ASSUME Typed, ProvInv, Untangled, NEW a \in Agents
               PROVE  live[a] \in Valid
    BY DEF FilesValid
  <2>1. mixed[a] = {} /\ live[a] # None
    BY NoneFacts DEF Untangled, Typed, TypeOK
  <2> QED
    BY <2>1, ConfigAssumption DEF ProvInv, AgentsAsked, Maybe
<1> QED
  BY <1>1, LoneAlways, PTL

-----------------------------------------------------------------------------
(* The last-known-good config, when operators wait until an agent has        *)
(* settled.  A status does not say which push it answers, so what makes it   *)
(* promote the right config is that one push of an agent at a time is under  *)
(* way: whatever is asked, offered, worked on or claimed for it, in any      *)
(* place of the system, is one and the same config.                          *)

Claims(s, x) == s # None /\ s.ok /\ s.cfg = x

\* The places of the system that hold config x on behalf of agent a.
AskedFor(a, x) ==
  \/ row[a].pending = x
  \/ \E r \in Requests : a \in Targets(r) /\ req[r].cfg = x

OfferedTo(a, x) ==
  \E c \in Conns : owner[c] = a /\ \E i \in 1..Len(down[c]) : down[c][i] = x

WorkedOn(a, x) ==
  \E h \in Handlers : task[a][h].pc # "idle" /\ task[a][h].cfg = x

ClaimedBy(a, x) == Claims(synced[a], x) \/ Claims(out[a], x)

Reported(a, x) ==
  \E c \in Conns : owner[c] = a /\
    \/ Claims(serving[c].msg, x)
    \/ \E i \in 1..Len(up[c]) : Claims(up[c][i], x)

Concerns(a, x) ==
  \/ AskedFor(a, x) \/ OfferedTo(a, x) \/ WorkedOn(a, x)
  \/ ClaimedBy(a, x) \/ Reported(a, x)

OnePush ==
  \A a \in Agents : \A x, y \in Configs :
    Concerns(a, x) /\ Concerns(a, y) => x = y

\* A success the client remembers belongs to a process about to restart.
SyncedDying == \A a \in Agents : synced[a] # None /\ synced[a].ok => dying[a]

OneInv == OnePush /\ SyncedDying

\* One family of places at a time.
LEMMA AskedFrame ==
  ASSUME NEW a \in Agents, NEW x \in Configs,
         row'[a].pending \in {None, row[a].pending},
         \A r \in Requests : req'[r] = req[r] \/ req'[r] = NoRequest,
         AskedFor(a, x)'
  PROVE  AskedFor(a, x)
  BY NoneFacts DEF AskedFor, Targets, NoRequest

LEMMA ConcernsFrame ==
  ASSUME NEW a \in Agents, NEW x \in Configs, Concerns(a, x)',
         UNCHANGED <<row, req, owner, down, task, synced, out, serving, up>>
  PROVE  Concerns(a, x)
  BY DEF Concerns, AskedFor, Targets, OfferedTo, WorkedOn, ClaimedBy, Reported

\* A push of a settled agent is then the only one there is.
LEMMA OneBegin ==
  ASSUME Typed, OneInv, NEW r \in Requests, NEW T \in SUBSET Agents,
         NEW c \in Configs, Begin(r, T, c), \A a \in T : Settled(a)
  PROVE  OneInv'
<1>1. UNCHANGED <<row, owner, down, task, synced, out, serving, up, dying>>
  BY DEF Begin, store, server, wire, agent
<1>2. /\ \A s \in Requests \ {r} : req'[s] = req[s]
      /\ req'[r].cfg = c /\ req'[r].todo = T /\ req'[r].at = None
  BY DEF Begin, Typed, TypeOK
<1>3. ASSUME NEW a \in Agents \ T, NEW x \in Configs, Concerns(a, x)'
      PROVE  Concerns(a, x)
  BY <1>1, <1>2, <1>3
     DEF Concerns, AskedFor, Targets, OfferedTo, WorkedOn, ClaimedBy, Reported
<1>4. ASSUME NEW a \in T, NEW x \in Configs, Concerns(a, x)'
      PROVE  x = c
  <2>1. Settled(a)
    OBVIOUS
  <2>2. ~ AskedFor(a, x)' \/ x = c
    BY <1>1, <1>2, <2>1, NoneFacts DEF AskedFor, Targets, Settled
  <2>3. ~ OfferedTo(a, x)'
    BY <1>1, <2>1 DEF OfferedTo, Settled
  <2>4. ~ WorkedOn(a, x)'
    BY <1>1, <2>1 DEF WorkedOn, Settled
  <2>5. ~ ClaimedBy(a, x)'
    BY <1>1, <2>1 DEF ClaimedBy, Claims, Settled, OneInv, SyncedDying
  <2>6. ~ Reported(a, x)'
    BY <1>1, <2>1 DEF Reported, Claims, Settled
  <2> QED
    BY <1>4, <2>2, <2>3, <2>4, <2>5, <2>6 DEF Concerns
<1>5. OnePush'
  <2> SUFFICES ASSUME NEW a \in Agents, NEW x \in Configs, NEW y \in Configs,
                      Concerns(a, x)', Concerns(a, y)'
               PROVE  x = y
    BY DEF OnePush
  <2>1. CASE a \in T
    BY <1>4, <2>1
  <2>2. CASE a \notin T
    BY <1>3, <2>2 DEF OneInv, OnePush
  <2> QED
    BY <2>1, <2>2
<1> QED
  BY <1>1, <1>5 DEF OneInv, SyncedDying

LEMMA ConcernsRequest ==
  ASSUME Typed, Routing, NEW r \in Requests, RequestStep(r) \/ RecordFails(r),
         NEW a \in Agents, NEW x \in Configs, Concerns(a, x)'
  PROVE  Concerns(a, x)
<1>1. UNCHANGED <<owner, task, synced, out, serving, up>>
  BY DEF RequestStep, RecordPending, Lookup, Send, RecordFails, server, wire,
         agent
<1>2. req[r] \in Request
  BY DEF Typed, TypeOK
<1>3. ~ OfferedTo(a, x)' /\ ~ AskedFor(a, x)' => Concerns(a, x)
  BY <1>1 DEF Concerns, WorkedOn, ClaimedBy, Reported
<1>4. CASE RecordPending(r)
  <2>1. PICK b \in req[r].todo :
          /\ row' = [row EXCEPT ![b] = WithPending(@, req[r].cfg)]
          /\ req' = [req EXCEPT ![r].pc = "lookup", ![r].todo = @ \ {b},
                                ![r].at = b]
    BY <1>4 DEF RecordPending
  <2>2. b \in Agents /\ row[b] \in Row /\ UNCHANGED down
    BY <1>2, <1>4, <2>1 DEF RecordPending, wire, Typed, TypeOK, Request
  <2>3. /\ \A s \in Requests \ {r} : req'[s] = req[s]
        /\ req'[r].cfg = req[r].cfg /\ req'[r].at = b
        /\ req'[r].todo = req[r].todo \ {b}
    BY <1>2, <2>1 DEF Typed, TypeOK, Request
  <2>4. /\ \A d \in Agents \ {b} : row'[d] = row[d]
        /\ row'[b].pending = req[r].cfg
    BY <2>1, <2>2 DEF WithPending, Typed, TypeOK, Row
  <2>5. AskedFor(a, x)' => AskedFor(a, x)
    <3>1. row'[a].pending = x => row[a].pending = x \/ (a = b /\ req[r].cfg = x)
      BY <2>4
    <3>2. \A s \in Requests :
            /\ req'[s].cfg = req[s].cfg
            /\ req'[s].todo \union ({req'[s].at} \ {None})
                 \subseteq req[s].todo \union ({req[s].at} \ {None})
      BY <2>1, <2>3, Zenon
    <3> QED
      BY <2>1, <3>1, <3>2, Zenon DEF AskedFor, Targets
  <2>6. OfferedTo(a, x)' => OfferedTo(a, x)
    BY <1>1, <2>2 DEF OfferedTo
  <2> QED
    BY <1>3, <2>5, <2>6 DEF Concerns
<1>5. CASE Lookup(r) \/ RecordFails(r) \/ Send(r)
  <2>1. UNCHANGED row /\ \A s \in Requests \ {r} : req'[s] = req[s]
    BY <1>5 DEF Lookup, RecordFails, Send, store, Typed, TypeOK
  <2>2. \/ req'[r] = NoRequest
        \/ /\ req'[r].cfg = req[r].cfg /\ req'[r].todo \subseteq req[r].todo
           /\ req'[r].at \in {None, req[r].at}
    <3>1. CASE Lookup(r) \/ RecordFails(r)
      BY <3>1, TargetsLeft
    <3>2. CASE Send(r)
      <4>1. req'[r] = NextTarget(r, req[r].todo)
        BY <3>2 DEF Send, Typed, TypeOK
      <4> QED
        BY <4>1 DEF NextTarget
    <3> QED
      BY <1>5, <3>1, <3>2
  <2>3. AskedFor(a, x)' => AskedFor(a, x)
    BY <2>1, <2>2 DEF AskedFor, Targets, NoRequest
  <2>4. OfferedTo(a, x)' => OfferedTo(a, x) \/ AskedFor(a, x)
    <3>1. CASE UNCHANGED down
      BY <1>1, <3>1 DEF OfferedTo
    <3>2. CASE down' # down
      <4> DEFINE k == req[r].conn
      <4>1. /\ req[r].pc = "send" /\ k \in Conns /\ req[r].cfg \in Configs
            /\ req[r].at \in Agents
        BY <1>5, <3>2
           DEF Lookup, RecordFails, Send, wire, Typed, TypeOK, RequestShape
      <4>2. /\ owner[k] = req[r].at
            /\ down'[k] = Append(down[k], req[r].cfg)
            /\ \A c \in Conns \ {k} : down'[c] = down[c]
        BY <1>5, <3>2, <4>1, Zenon
           DEF Lookup, RecordFails, Send, wire, Routing, Typed, TypeOK
      <4>3. \A i \in 1..Len(down'[k]) :
              \/ down'[k][i] = req[r].cfg
              \/ \E j \in 1..Len(down[k]) : down'[k][i] = down[k][j]
        BY <4>1, <4>2 DEF Typed, TypeOK
      <4>4. req[r].at \in Targets(r)
        BY <4>1, NoneFacts DEF Targets
      <4> HIDE DEF k
      <4> SUFFICES ASSUME OfferedTo(a, x)'
                   PROVE  OfferedTo(a, x) \/ AskedFor(a, x)
        OBVIOUS
      <4>5. PICK c \in Conns : /\ owner[c] = a
                               /\ \E i \in 1..Len(down'[c]) : down'[c][i] = x
        BY <1>1 DEF OfferedTo
      <4>6. CASE c # k
        BY <4>2, <4>5, <4>6 DEF OfferedTo
      <4>7. CASE c = k
        <5>1. \/ x = req[r].cfg
              \/ \E j \in 1..Len(down[k]) : x = down[k][j]
          BY <4>3, <4>5, <4>7
        <5>2. CASE x = req[r].cfg
          BY <4>2, <4>4, <4>5, <4>7, <5>2 DEF AskedFor
        <5>3. CASE \E j \in 1..Len(down[k]) : x = down[k][j]
          BY <4>5, <4>7, <5>3 DEF OfferedTo
        <5> QED
          BY <5>1, <5>2, <5>3
      <4> QED
        BY <4>6, <4>7
    <3> QED
      BY <3>1, <3>2
  <2> QED
    BY <1>3, <2>3, <2>4 DEF Concerns
<1> QED
  BY <1>4, <1>5 DEF RequestStep

LEMMA ConcernsDelete ==
  ASSUME Typed, NEW b \in Agents, DeleteAgent(b),
         NEW a \in Agents, NEW x \in Configs, Concerns(a, x)'
  PROVE  Concerns(a, x)
<1>1. UNCHANGED <<req, owner, down, task, synced, out, serving, up>>
  BY DEF DeleteAgent, server, wire, agent
<1>2. row'[a].pending \in {None, row[a].pending}
  BY DEF DeleteAgent, NoRow, Typed, TypeOK
<1>3. AskedFor(a, x)' => AskedFor(a, x)
  BY <1>1, <1>2, AskedFrame
<1> QED
  BY <1>1, <1>3 DEF Concerns, OfferedTo, WorkedOn, ClaimedBy, Reported

\* The server's goroutines move a status towards the row, or drop it.
LEMMA ConcernsConnection ==
  ASSUME Typed, NEW c \in Conns, ConnectionStep(c),
         NEW a \in Agents, NEW x \in Configs, Concerns(a, x)'
  PROVE  Concerns(a, x)
<1>1. UNCHANGED <<req, down, task, synced, out>>
  BY DEF ConnectionStep, Register, TouchRow, Recreate, RecordStatus, Close,
         wire, agent
<1>2. WorkedOn(a, x)' \/ ClaimedBy(a, x)' => Concerns(a, x)
  BY <1>1 DEF Concerns, WorkedOn, ClaimedBy
<1>3. CASE Register(c)
  <2>1. UNCHANGED <<row, owner>>
    BY <1>3 DEF Register, store
  <2>2. up[c] \in Seq(Maybe(Status)) /\ up[c] # << >>
    BY <1>3 DEF Register, Typed, TypeOK
  <2>3. /\ \A k \in Conns \ {c} : up'[k] = up[k] /\ serving'[k] = serving[k]
        /\ up'[c] = Tail(up[c]) /\ serving'[c].msg = Head(up[c])
    BY <1>3 DEF Register, Typed, TypeOK
  <2>4. /\ \E j \in 1..Len(up[c]) : Head(up[c]) = up[c][j]
        /\ \A i \in 1..Len(Tail(up[c])) :
             \E j \in 1..Len(up[c]) : Tail(up[c])[i] = up[c][j]
    BY <2>2, Dequeued
  <2>5. Reported(a, x)' => Reported(a, x)
    <3> SUFFICES ASSUME NEW k \in Conns, owner[k] = a,
                        \/ Claims(serving'[k].msg, x)
                        \/ \E i \in 1..Len(up'[k]) : Claims(up'[k][i], x)
                 PROVE  \/ Claims(serving[k].msg, x)
                        \/ \E j \in 1..Len(up[k]) : Claims(up[k][j], x)
      BY <2>1, <2>3, <2>4 DEF Reported, Claims
    <3>1. CASE k = c
      <4>1. CASE Claims(serving'[c].msg, x)
        BY <2>3, <2>4, <3>1, <4>1 DEF Claims
      <4>2. CASE \E i \in 1..Len(up'[c]) : Claims(up'[c][i], x)
        BY <2>3, <2>4, <3>1, <4>2 DEF Claims
      <4> QED
        BY <3>1, <4>1, <4>2
    <3>2. CASE k # c
      BY <2>3, <3>2 DEF Claims
    <3> QED
      BY <3>1, <3>2
  <2> QED
    BY <1>1, <1>2, <2>1, <2>5 DEF Concerns, AskedFor, Targets, OfferedTo
<1>4. CASE TouchRow(c) \/ Recreate(c) \/ RecordStatus(c)
  <2> DEFINE o == owner[c]
  <2>1. UNCHANGED <<owner, up>> /\ o \in Agents /\ row[o] \in Row
    BY <1>4 DEF TouchRow, Recreate, RecordStatus, wire, server, Typed, TypeOK,
                ServingShape
  <2>2. \A b \in Agents \ {o} : row'[b] = row[b]
    BY <1>4, <2>1 DEF TouchRow, Recreate, RecordStatus, Typed, TypeOK
  <2>3. row'[o].pending \in {None, row[o].pending}
    <3>1. CASE TouchRow(c) \/ Recreate(c)
      BY <2>1, <3>1 DEF TouchRow, Recreate, Typed, TypeOK, Row
    <3>2. CASE RecordStatus(c)
      <4>1. row'[o] \in {row[o], Promoted(row[o]), Failed(row[o])}
        BY <2>1, <3>2 DEF RecordStatus, Typed, TypeOK
      <4> QED
        BY <2>1, <4>1 DEF Promoted, Failed, Row
    <3> QED
      BY <1>4, <3>1, <3>2
  <2>4. /\ \A k \in Conns \ {c} : serving'[k] = serving[k]
        /\ serving'[c].msg \in {None, serving[c].msg}
    BY <1>4 DEF TouchRow, Recreate, RecordStatus, server, NotServing, Typed,
                TypeOK, Serving
  <2>5. AskedFor(a, x)' => AskedFor(a, x)
    BY <1>1, <2>2, <2>3, AskedFrame
  <2>6. Reported(a, x)' => Reported(a, x)
    BY <2>1, <2>4 DEF Reported, Claims
  <2> QED
    BY <1>1, <1>2, <2>1, <2>5, <2>6 DEF Concerns, OfferedTo
<1>5. CASE Close(c)
  <2>1. /\ UNCHANGED <<row, serving>>
        /\ \A k \in Conns \ {c} : up'[k] = up[k] /\ owner'[k] = owner[k]
        /\ owner'[c] = None
    BY <1>5 DEF Close, store, Typed, TypeOK
  <2>2. Reported(a, x)' => Reported(a, x)
    BY <2>1, NoneFacts DEF Reported, Claims
  <2>3. OfferedTo(a, x)' => OfferedTo(a, x)
    BY <1>1, <2>1, NoneFacts DEF OfferedTo
  <2> QED
    BY <1>1, <1>2, <2>1, <2>2, <2>3 DEF Concerns, AskedFor, Targets
<1> QED
  BY <1>3, <1>4, <1>5 DEF ConnectionStep

LEMMA ConcernsServerCrash ==
  ASSUME Typed, ServerCrash,
         NEW a \in Agents, NEW x \in Configs, Concerns(a, x)'
  PROVE  Concerns(a, x)
<1>1. UNCHANGED <<row, task, synced, out>>
  BY DEF ServerCrash, store
<1>2. ~ OfferedTo(a, x)' /\ ~ Reported(a, x)'
  BY NoneFacts DEF ServerCrash, OfferedTo, Reported
<1>3. AskedFor(a, x)' => AskedFor(a, x)
  BY <1>1, AskedFrame DEF ServerCrash
<1> QED
  BY <1>1, <1>2, <1>3 DEF Concerns, WorkedOn, ClaimedBy

\* The first message on a connection repeats what the client remembers, and
\* nothing is left on it from its last use.
LEMMA ConcernsConnect ==
  ASSUME Typed, HonestInv, WireInv, NEW b \in Agents, NEW c \in Conns,
         Connect(b, c), NEW a \in Agents, NEW x \in Configs, Concerns(a, x)'
  PROVE  Concerns(a, x)
<1>1. UNCHANGED <<row, req, down, task, synced, serving>>
  BY DEF Connect, store
<1>2. /\ \A k \in Conns \ {c} : up'[k] = up[k] /\ owner'[k] = owner[k]
      /\ owner[c] = None /\ owner'[c] = b /\ up'[c] = <<synced[b]>>
      /\ \A d \in Agents \ {b} : out'[d] = out[d]
      /\ out'[b] = None
  BY DEF Connect, Typed, TypeOK
<1>3. down[c] = << >> /\ serving[c].msg = None
  BY <1>2, NoneFacts
     DEF WireInv, OffersAsked, HonestInv, IdleServesNothing, Typed,
         ServingShape
<1>4. ClaimedBy(a, x)' => ClaimedBy(a, x)
  BY <1>1, <1>2 DEF ClaimedBy, Claims
<1>5. OfferedTo(a, x)' => OfferedTo(a, x)
  BY <1>1, <1>2, <1>3 DEF OfferedTo
<1>6. Reported(a, x)' => Reported(a, x) \/ ClaimedBy(a, x)
  <2>1. \A i \in 1..Len(up'[c]) : up'[c][i] = synced[b]
    BY <1>2
  <2> QED
    BY <1>1, <1>2, <1>3, <2>1 DEF Reported, ClaimedBy, Claims
<1> QED
  BY <1>1, <1>4, <1>5, <1>6 DEF Concerns, AskedFor, Targets, WorkedOn

LEMMA ConcernsSendNext ==
  ASSUME Typed, HonestInv, NEW b \in Agents, SendNext(b),
         NEW a \in Agents, NEW x \in Configs, Concerns(a, x)'
  PROVE  Concerns(a, x)
<1> DEFINE k == conn[b]
<1>1. UNCHANGED <<row, req, owner, down, task, synced, serving>>
  BY DEF SendNext, store, server
<1>2. k \in Conns /\ owner[k] = b /\ up[k] \in Seq(Maybe(Status))
      /\ out[b] \in Maybe(Status)
  BY DEF SendNext, MaySend, HonestInv, ConnOwned, Typed, TypeOK, Maybe
<1>3. /\ \A c \in Conns \ {k} : up'[c] = up[c]
      /\ up'[k] = Append(up[k], out[b])
      /\ \A d \in Agents \ {b} : out'[d] = out[d]
      /\ out'[b] = None
  BY <1>2 DEF SendNext, Typed, TypeOK
<1>4. \A i \in 1..Len(up'[k]) :
        up'[k][i] = out[b] \/ \E j \in 1..Len(up[k]) : up'[k][i] = up[k][j]
  BY <1>2, <1>3, Enqueued
<1>5. ClaimedBy(a, x)' => ClaimedBy(a, x)
  BY <1>1, <1>3 DEF ClaimedBy, Claims
<1> HIDE DEF k
<1>6. Reported(a, x)' => Reported(a, x) \/ ClaimedBy(a, x)
  <2> SUFFICES ASSUME NEW c \in Conns, owner[c] = a,
                      \/ Claims(serving[c].msg, x)
                      \/ \E i \in 1..Len(up'[c]) : Claims(up'[c][i], x)
               PROVE  Reported(a, x) \/ ClaimedBy(a, x)
    BY <1>1 DEF Reported, Claims
  <2>1. CASE c = k
    BY <1>2, <1>4, <2>1 DEF Reported, ClaimedBy, Claims
  <2>2. CASE c # k
    BY <1>3, <2>2 DEF Reported, Claims
  <2> QED
    BY <2>1, <2>2
<1> QED
  BY <1>1, <1>5, <1>6 DEF Concerns, AskedFor, Targets, OfferedTo, WorkedOn

\* A lost connection and a stopped process only forget.
LEMMA ConcernsDown ==
  ASSUME Typed, NEW b \in Agents, Drop(b) \/ Stopped(b),
         NEW a \in Agents, NEW x \in Configs, Concerns(a, x)'
  PROVE  Concerns(a, x)
<1>1. UNCHANGED <<row, req, owner, serving, up>>
  BY DEF Drop, Stopped, store, server
<1>2. /\ \A k \in Conns : down'[k] = << >> \/ down'[k] = down[k]
      /\ synced'[a] \in {None, synced[a]} /\ out'[a] \in {None, out[a]}
      /\ \A h \in Handlers : task'[a][h] = task[a][h] \/ task'[a][h].pc = "idle"
  <2>1. \A k \in Conns : down'[k] = << >> \/ down'[k] = down[k]
    BY DEF Drop, Stopped, Disconnected
  <2>2. CASE Drop(b)
    BY <2>1, <2>2 DEF Drop
  <2>3. CASE Stopped(b)
    BY <2>1, <2>3 DEF Stopped, NoTask, Typed, TypeOK
  <2> QED
    BY <2>2, <2>3
<1>3. OfferedTo(a, x)' => OfferedTo(a, x)
  BY <1>1, <1>2 DEF OfferedTo
<1>4. WorkedOn(a, x)' => WorkedOn(a, x)
  BY <1>2 DEF WorkedOn
<1>5. ClaimedBy(a, x)' => ClaimedBy(a, x)
  BY <1>2 DEF ClaimedBy, Claims
<1> QED
  BY <1>1, <1>3, <1>4, <1>5 DEF Concerns, AskedFor, Targets, Reported

LEMMA ConcernsReceive ==
  ASSUME Typed, HonestInv, NEW b \in Agents, NEW h \in Handlers,
         Receive(b, h), NEW a \in Agents, NEW x \in Configs, Concerns(a, x)'
  PROVE  Concerns(a, x)
<1> DEFINE k == conn[b]
<1>1. UNCHANGED <<row, req, owner, synced, out, serving, up>>
  BY DEF Receive, store, server
<1>2. k \in Conns /\ owner[k] = b /\ down[k] \in Seq(Configs) /\ down[k] # << >>
  BY DEF Receive, HonestInv, ConnOwned, Typed, TypeOK, Maybe
<1>3. /\ \A c \in Conns \ {k} : down'[c] = down[c]
      /\ down'[k] = Tail(down[k])
      /\ task'[b][h].cfg = Head(down[k])
      /\ \A d \in Agents, g \in Handlers :
           d # b \/ g # h => task'[d][g] = task[d][g]
  BY <1>2 DEF Receive, Typed, TypeOK
<1>4. /\ \E j \in 1..Len(down[k]) : Head(down[k]) = down[k][j]
      /\ \A i \in 1..Len(Tail(down[k])) :
           \E j \in 1..Len(down[k]) : Tail(down[k])[i] = down[k][j]
  BY <1>2, Dequeued
<1> HIDE DEF k
<1>5. OfferedTo(a, x)' => OfferedTo(a, x)
  <2> SUFFICES ASSUME NEW c \in Conns, owner[c] = a,
                      NEW i \in 1..Len(down'[c]), down'[c][i] = x
               PROVE  \E j \in 1..Len(down[c]) : down[c][j] = x
    BY <1>1 DEF OfferedTo
  <2>1. CASE c = k
    <3>1. i \in 1..Len(Tail(down[k])) /\ Tail(down[k])[i] = x
      BY <1>3, <2>1
    <3>2. PICK j \in 1..Len(down[k]) : Tail(down[k])[i] = down[k][j]
      BY <1>4, <3>1, Zenon
    <3> QED
      BY <2>1, <3>1, <3>2, Zenon
  <2>2. CASE c # k
    BY <1>3, <2>2
  <2> QED
    BY <2>1, <2>2
<1>6. WorkedOn(a, x)' => WorkedOn(a, x) \/ OfferedTo(a, x)
  BY <1>1, <1>2, <1>3, <1>4 DEF WorkedOn, OfferedTo
<1> QED
  BY <1>1, <1>5, <1>6 DEF Concerns, AskedFor, Targets, ClaimedBy, Reported

LEMMA ConcernsHandler ==
  ASSUME Typed, NEW b \in Agents, NEW h \in Handlers, HandlerStep(b, h),
         NEW a \in Agents, NEW x \in Configs, Concerns(a, x)'
  PROVE  Concerns(a, x)
<1>1. UNCHANGED <<row, req, owner, down, serving, up>>
  BY DEF HandlerStep, Apply, Reject, Report, store, server, wire
<1>2. task[b][h] \in Task /\ task[b][h].pc # "idle"
  <2>1. task[b][h].pc # "idle"
    BY DEF HandlerStep, Apply, Reject, Report
  <2> QED
    BY <2>1 DEF Typed, TypeOK
<1>3. /\ \A d \in Agents, g \in Handlers :
           d # b \/ g # h => task'[d][g] = task[d][g]
      /\ task'[b][h].pc = "idle" \/ task'[b][h].cfg = task[b][h].cfg
  <2>1. \/ task' = [task EXCEPT ![b][h] = NoTask]
        \/ task' = Returned(b, h, TRUE) \/ task' = Returned(b, h, FALSE)
    BY DEF HandlerStep, Apply, Reject, Report
  <2>2. CASE task' = [task EXCEPT ![b][h] = NoTask]
    BY <2>2 DEF NoTask, Typed, TypeOK
  <2>3. ASSUME NEW ok \in BOOLEAN, task' = Returned(b, h, ok)
        PROVE  /\ \A d \in Agents, g \in Handlers :
                    d # b \/ g # h => task'[d][g] = task[d][g]
               /\ task'[b][h].cfg = task[b][h].cfg
    BY <1>2, <2>3 DEF Returned, Typed, TypeOK, Task
  <2> QED
    BY <2>1, <2>2, <2>3
<1>4. /\ synced'[a] = synced[a] /\ out'[a] = out[a]
      \/ /\ a = b
         /\ synced'[a].cfg = task[b][h].cfg
         /\ out'[a].cfg = task[b][h].cfg \/ out'[a] = out[a]
  <2>1. CASE Apply(b, h) \/ Reject(b, h)
    BY <2>1 DEF Apply, Reject
  <2>2. CASE Report(b, h)
    BY <2>2 DEF Report, ReportStatus, Typed, TypeOK
  <2> QED
    BY <2>1, <2>2 DEF HandlerStep
<1>5. WorkedOn(a, x)' => WorkedOn(a, x)
  BY <1>2, <1>3 DEF WorkedOn
<1>6. ClaimedBy(a, x)' => ClaimedBy(a, x) \/ WorkedOn(a, x)
  BY <1>2, <1>4 DEF ClaimedBy, Claims, WorkedOn
<1> QED
  BY <1>1, <1>5, <1>6 DEF Concerns, AskedFor, Targets, OfferedTo, Reported

LEMMA SyncedStep ==
  Typed /\ SyncedDying /\ [Next]_vars => SyncedDying'
<1> SUFFICES ASSUME Typed, SyncedDying, [Next]_vars PROVE SyncedDying'
  OBVIOUS
<1>1. CASE UNCHANGED <<synced, dying>>
  BY <1>1 DEF SyncedDying
<1>2. ASSUME NEW a \in Agents, NEW h \in Handlers, Report(a, h)
      PROVE  SyncedDying'
  <2>1. /\ synced' = [synced EXCEPT ![a] = [ok |-> task[a][h].ok,
                                            cfg |-> task[a][h].cfg]]
        /\ dying' = [dying EXCEPT ![a] = @ \/ task[a][h].ok]
    BY <1>2 DEF Report, ReportStatus, ArmsRestart
  <2>2. synced'[a].ok => dying'[a]
    BY <2>1 DEF Typed, TypeOK
  <2>3. \A b \in Agents \ {a} : synced'[b] = synced[b] /\ dying'[b] = dying[b]
    BY <2>1 DEF Typed, TypeOK
  <2> QED
    BY <2>2, <2>3 DEF SyncedDying
<1>3. ASSUME NEW a \in Agents, Stopped(a)
      PROVE  SyncedDying'
  BY <1>3 DEF Stopped, SyncedDying, Typed, TypeOK
<1>4. CASE OperatorStep
  BY <1>1, <1>4, OperatorCases DEF Begin, RecordFails, DeleteAgent, agent
<1>5. ASSUME NEW r \in Requests, RequestStep(r)
      PROVE  UNCHANGED <<synced, dying>>
  BY <1>5 DEF RequestStep, RecordPending, Lookup, Send, agent
<1>6. ASSUME NEW c \in Conns, ConnectionStep(c)
      PROVE  UNCHANGED <<synced, dying>>
  BY <1>6 DEF ConnectionStep, Register, TouchRow, Recreate, RecordStatus,
              Close, agent
<1>7. ASSUME NEW a \in Agents,
             \/ \E c \in Conns : Connect(a, c)
             \/ \E h \in Handlers : \/ Receive(a, h) \/ Apply(a, h)
                                   \/ Reject(a, h) \/ WriteThrough(a, h)
             \/ SendNext(a) \/ Drop(a) \/ Start(a)
      PROVE  UNCHANGED <<synced, dying>>
  BY <1>7 DEF Connect, Receive, Apply, Reject, WriteThrough, SendNext, Drop,
              Start
<1>8. CASE ServerCrash
  BY <1>1, <1>8 DEF ServerCrash
<1>9. CASE UNCHANGED vars
  BY <1>1, <1>9 DEF vars
<1> QED
  BY <1>1, <1>2, <1>3, <1>4, <1>5, <1>6, <1>7, <1>8, <1>9
     DEF Next, HandlerStep, Failure, Restart, Crash

LEMMA OneStep ==
  /\ Serial /\ Typed /\ Routing /\ HonestInv /\ ProvInv /\ OneInv
  /\ [Next]_vars
  => OneInv'
<1> SUFFICES ASSUME Serial, Typed, Routing, HonestInv, ProvInv, OneInv,
                    [Next]_vars
             PROVE  OneInv'
  OBVIOUS
<1>1. CASE \E r \in Requests, T \in SUBSET Agents, c \in Configs :
             Begin(r, T, c)
  BY <1>1, OneBegin DEF Begin
<1>2. CASE \A a \in Agents, x \in Configs : Concerns(a, x)' => Concerns(a, x)
  BY <1>2, SyncedStep DEF OneInv, OnePush
<1>3. CASE OperatorStep
  <2>1. ASSUME NEW r \in Requests, RecordFails(r)
        PROVE  OneInv'
    BY <1>2, <2>1, ConcernsRequest
  <2>2. ASSUME NEW b \in Agents, DeleteAgent(b)
        PROVE  OneInv'
    BY <1>2, <2>2, ConcernsDelete
  <2> QED
    BY <1>1, <1>3, <2>1, <2>2, OperatorCases
<1>4. ASSUME NEW r \in Requests, RequestStep(r)
      PROVE  OneInv'
  BY <1>2, <1>4, ConcernsRequest
<1>5. ASSUME NEW c \in Conns, ConnectionStep(c)
      PROVE  OneInv'
  BY <1>2, <1>5, ConcernsConnection
<1>6. ASSUME NEW b \in Agents, NEW c \in Conns, Connect(b, c)
      PROVE  OneInv'
  BY <1>2, <1>6, ConcernsConnect DEF ProvInv
<1>7. ASSUME NEW b \in Agents, NEW h \in Handlers, Receive(b, h)
      PROVE  OneInv'
  BY <1>2, <1>7, ConcernsReceive
<1>8. ASSUME NEW b \in Agents, NEW h \in Handlers, HandlerStep(b, h)
      PROVE  OneInv'
  BY <1>2, <1>8, ConcernsHandler
<1>9. ASSUME NEW b \in Agents, SendNext(b)
      PROVE  OneInv'
  BY <1>2, <1>9, ConcernsSendNext
<1>10. ASSUME NEW b \in Agents, Drop(b) \/ Stopped(b)
       PROVE  OneInv'
  BY <1>2, <1>10, ConcernsDown
<1>11. CASE ServerCrash
  BY <1>2, <1>11, ConcernsServerCrash
<1>12. ASSUME NEW b \in Agents,
              Start(b) \/ \E h \in Handlers : WriteThrough(b, h)
       PROVE  OneInv'
  <2>1. UNCHANGED <<row, req, owner, down, task, synced, out, serving, up>>
    BY <1>12 DEF Start, WriteThrough, store, server, wire
  <2> QED
    BY <1>2, <2>1, ConcernsFrame
<1>13. CASE UNCHANGED vars
  BY <1>2, <1>13, ConcernsFrame DEF vars
<1> QED
  BY <1>3, <1>4, <1>5, <1>6, <1>7, <1>8, <1>9, <1>10, <1>11, <1>12, <1>13
     DEF Next, Failure, Restart, Crash

\* Only the recording of a success changes the column, to what is pending.
LEMMA LkgRecordStatus ==
  ASSUME Typed, HonestInv, Untangled, OneInv, LkgWasApplied, NEW c \in Conns,
         RecordStatus(c)
  PROVE  LkgWasApplied'
<1> DEFINE o == owner[c]
           y == serving[c].msg.cfg
<1>1. /\ UNCHANGED applied /\ serving[c].msg \in Status
      /\ o \in Agents /\ row[o] \in Row
  BY NoneFacts DEF RecordStatus, Typed, TypeOK, ServingShape
<1>2. \A a \in Agents \ {o} : row'[a] = row[a]
  BY <1>1 DEF RecordStatus, Typed, TypeOK
<1>3. row'[o].lkg \in Maybe(applied[o])
  <2>1. CASE row[o].exists /\ serving[c].msg.ok
    <3>1. row'[o].lkg = row[o].pending
      <4>1. row'[o] = Promoted(row[o])
        BY <1>1, <2>1 DEF RecordStatus, Typed, TypeOK
      <4> QED
        BY <1>1, <4>1 DEF Promoted, Row
    <3>2. Reported(o, y) /\ y \in Configs /\ y \in applied[o]
      BY <1>1, <2>1, NoneFacts
         DEF Reported, Claims, HonestInv, ClaimsHonest, Honest, Untangled,
             Status
    <3>3. CASE row[o].pending = None
      BY <3>1, <3>3 DEF Maybe
    <3>4. CASE row[o].pending # None
      <4>1. row[o].pending \in Configs
        BY <1>1, <3>4 DEF Row, Maybe
      <4>2. Concerns(o, row[o].pending) /\ Concerns(o, y)
        BY <3>2 DEF Concerns, AskedFor
      <4>3. row[o].pending = y
        BY <1>1, <3>2, <4>1, <4>2 DEF OneInv, OnePush
      <4> QED
        BY <3>1, <3>2, <4>3 DEF Maybe
    <3> QED
      BY <3>3, <3>4
  <2>2. CASE ~ (row[o].exists /\ serving[c].msg.ok)
    <3>1. row'[o] \in {row[o], Failed(row[o])}
      BY <1>1, <2>2 DEF RecordStatus, Typed, TypeOK
    <3>2. row'[o].lkg = row[o].lkg
      BY <1>1, <3>1 DEF Failed, Row
    <3> QED
      BY <1>1, <3>2 DEF LkgWasApplied
  <2> QED
    BY <2>1, <2>2
<1> QED
  BY <1>1, <1>2, <1>3 DEF LkgWasApplied

LEMMA LkgStep ==
  /\ Typed /\ Overlapping /\ HonestInv /\ Untangled /\ OneInv /\ LkgWasApplied
  /\ [Next]_vars
  => LkgWasApplied'
<1> SUFFICES ASSUME Typed, Overlapping, HonestInv, Untangled, OneInv,
                    LkgWasApplied, [Next]_vars
             PROVE  LkgWasApplied'
  OBVIOUS
<1>1. CASE /\ \A a \in Agents : row'[a].lkg \in {None, row[a].lkg}
           /\ \A a \in Agents : applied[a] \subseteq applied'[a]
  BY <1>1 DEF LkgWasApplied, Maybe
<1>2. CASE UNCHANGED <<row, applied>>
  BY <1>1, <1>2
<1>3. CASE OperatorStep
  <2>1. ASSUME NEW a \in Agents, DeleteAgent(a)
        PROVE  LkgWasApplied'
    BY <1>1, <2>1 DEF DeleteAgent, NoRow, Typed, TypeOK
  <2> QED
    BY <1>2, <1>3, <2>1, OperatorCases DEF Begin, RecordFails, store
<1>4. ASSUME NEW r \in Requests, RequestStep(r)
      PROVE  LkgWasApplied'
  <2>1. CASE RecordPending(r)
    <3>1. PICK b \in req[r].todo :
            row' = [row EXCEPT ![b] = WithPending(@, req[r].cfg)]
      BY <2>1 DEF RecordPending
    <3>2. b \in Agents /\ row[b] \in Row
      BY <3>1 DEF Typed, TypeOK, Request
    <3>3. \A a \in Agents : row'[a].lkg = row[a].lkg
      BY <3>1, <3>2 DEF WithPending, Typed, TypeOK, Row
    <3> QED
      BY <1>1, <2>1, <3>3 DEF RecordPending
  <2> QED
    BY <1>2, <1>4, <2>1 DEF RequestStep, Lookup, Send, store
<1>5. ASSUME NEW c \in Conns, ConnectionStep(c)
      PROVE  LkgWasApplied'
  <2>1. CASE TouchRow(c) \/ Recreate(c)
    <3>1. owner[c] \in Agents /\ row[owner[c]] \in Row
      BY <2>1 DEF TouchRow, Recreate, Typed, TypeOK, ServingShape
    <3>2. row' = [row EXCEPT ![owner[c]] =
                                [row[owner[c]] EXCEPT !.exists = TRUE]]
      BY <2>1 DEF TouchRow, Recreate
    <3>3. \A a \in Agents : row'[a].lkg = row[a].lkg
      BY <3>1, <3>2 DEF Typed, TypeOK, Row
    <3> QED
      BY <1>1, <2>1, <3>3 DEF TouchRow, Recreate
  <2> QED
    BY <1>2, <1>5, <2>1, LkgRecordStatus
       DEF ConnectionStep, Register, Close, store
<1>6. ASSUME NEW a \in Agents, NEW h \in Handlers,
             Receive(a, h) \/ HandlerStep(a, h) \/ WriteThrough(a, h)
      PROVE  LkgWasApplied'
  <2>1. UNCHANGED row /\ \A b \in Agents : applied[b] \subseteq applied'[b]
    <3>1. CASE Apply(a, h) \/ WriteThrough(a, h)
      <4>1. UNCHANGED row
        BY <3>1 DEF Apply, WriteThrough, store
      <4> QED
        BY <3>1, <4>1, Replaced
    <3> QED
      BY <1>6, <3>1 DEF Receive, HandlerStep, Reject, Report, store
  <2> QED
    BY <1>1, <2>1
<1>7. ASSUME NEW a \in Agents,
             \/ \E c \in Conns : Connect(a, c)
             \/ SendNext(a) \/ Drop(a) \/ Stopped(a) \/ Start(a)
      PROVE  UNCHANGED <<row, applied>>
  BY <1>7 DEF Connect, SendNext, Drop, Stopped, Start, store
<1>8. CASE ServerCrash
  BY <1>2, <1>8 DEF ServerCrash, store
<1>9. CASE UNCHANGED vars
  BY <1>2, <1>9 DEF vars
<1> QED
  BY <1>2, <1>3, <1>4, <1>5, <1>6, <1>7, <1>8, <1>9
     DEF Next, Failure, Restart, Crash

LEMMA OneInit == Init => OneInv /\ LkgWasApplied
<1> SUFFICES ASSUME Init PROVE OneInv /\ LkgWasApplied
  OBVIOUS
<1>1. ASSUME NEW a \in Agents, NEW x \in Configs
      PROVE  ~ Concerns(a, x)
  BY NoneFacts
     DEF Init, NoRow, NotServing, NoRequest, NoTask, Concerns, AskedFor,
         Targets, OfferedTo, WorkedOn, ClaimedBy, Claims, Reported
<1>2. LkgWasApplied
  BY DEF Init, NoRow, LkgWasApplied, Maybe
<1> QED
  BY <1>1, <1>2 DEF Init, OneInv, OnePush, SyncedDying

\* When operators wait until an agent has settled, a rollback can only re-send
\* a config that did replace the agent's file: no loss, late message, crash,
\* reused connection or deleted row makes a status promote another push than
\* its own.
THEOREM RollbackCorrect == ASSUME Serial
                           PROVE  Spec => []LkgWasApplied
<1>1. /\ Typed /\ Routing /\ HonestInv /\ ProvInv /\ OneInv /\ [Next]_vars
      => OneInv'
  BY OneStep
<1> QED
  BY <1>1, LoneAlways, OneInit, LkgStep, PTL DEF Spec

-----------------------------------------------------------------------------
(* The pending column, when operators wait and nothing fails.  A push of an  *)
(* agent is then in exactly one place: asked for by one request, offered on  *)
(* the wire, worked on by one handler, or answered by a status.  Only an     *)
(* answer clears the column, so it stays set in all the places before.       *)

Answering(a) ==
  \/ out[a] # None
  \/ \E c \in Conns : owner[c] = a /\
       \/ serving[c].msg # None
       \/ \E i \in 1..Len(up[c]) : up[c][i] # None

AnswersLast ==
  \A a \in Agents :
    Answering(a) => ~ Asking(a) /\ ~ Offering(a) /\ ~ Working(a)

PendingKept ==
  \A a \in Agents :
    (\E r \in Requests : req[r].at = a) \/ Offering(a) \/ Working(a)
    => row[a].pending # None

\* Without failures a process works, and remembers a status, only while its
\* connection is open.
ClientConnected ==
  \A a \in Agents : conn[a] = None => synced[a] = None /\ ~ Working(a)

Places == AnswersLast /\ PendingKept /\ ClientConnected

\* A step that starts nothing and only moves an answer along.
LEMMA PlacesShrink ==
  ASSUME Typed, Places,
         \A r \in Requests : /\ req'[r].todo \subseteq req[r].todo
                             /\ req'[r].at \in {None, req[r].at},
         \A a \in Agents, h \in Handlers :
           task'[a][h].pc # "idle" => task[a][h].pc # "idle",
         \A a \in Agents : /\ Offering(a)' => Offering(a)
                           /\ Answering(a)' => Answering(a)
                           /\ row'[a].pending = row[a].pending,
         ClientConnected'
  PROVE  Places'
<1>1. \A a \in Agents : /\ Asking(a)' => Asking(a)
                        /\ Working(a)' => Working(a)
  BY DEF Asking, Targets, Working
<1>2. AnswersLast'
  BY <1>1 DEF Places, AnswersLast
<1>3. PendingKept'
  <2>1. \A a \in Agents : (\E r \in Requests : req'[r].at = a)
                            => \E r \in Requests : req[r].at = a
    BY NoneFacts
  <2> QED
    BY <1>1, <2>1 DEF Places, PendingKept
<1> QED
  BY <1>2, <1>3 DEF Places

LEMMA PlacesBegin ==
  ASSUME Typed, Places, NEW r \in Requests, NEW T \in SUBSET Agents,
         NEW c \in Configs, Begin(r, T, c), \A a \in T : Settled(a)
  PROVE  Places'
<1>1. UNCHANGED <<row, owner, down, task, synced, out, serving, up, conn>>
  BY DEF Begin, store, server, wire, agent
<1>2. /\ \A s \in Requests \ {r} : req'[s] = req[s]
      /\ req'[r].todo = T /\ req'[r].at = None
  BY DEF Begin, Typed, TypeOK
<1>3. \A a \in Agents : /\ Offering(a)' = Offering(a)
                        /\ Working(a)' = Working(a)
                        /\ Answering(a)' = Answering(a)
  BY <1>1 DEF Offering, Working, Answering
<1>4. \A a \in T : ~ Answering(a)
  BY DEF Settled, Answering
<1>5. \A a \in Agents : Asking(a)' => Asking(a) \/ a \in T
  BY <1>2 DEF Asking, Targets
<1>6. AnswersLast'
  BY <1>3, <1>4, <1>5 DEF Places, AnswersLast
<1>7. ClientConnected'
  BY <1>1, <1>3 DEF Places, ClientConnected
<1>8. PendingKept'
  BY <1>1, <1>2, <1>3, NoneFacts DEF Places, PendingKept
<1> QED
  BY <1>6, <1>7, <1>8 DEF Places

LEMMA PlacesRecordPending ==
  ASSUME Typed, Places, NEW r \in Requests, RecordPending(r)
  PROVE  Places'
<1>1. PICK b \in req[r].todo :
        /\ row' = [row EXCEPT ![b] = WithPending(@, req[r].cfg)]
        /\ req' = [req EXCEPT ![r].pc = "lookup", ![r].todo = @ \ {b},
                              ![r].at = b]
  BY Zenon DEF RecordPending
<1>2. UNCHANGED <<owner, down, task, synced, out, serving, up, conn>>
  BY DEF RecordPending, server, wire, agent
<1>3. /\ req[r] \in Request /\ b \in Agents /\ row[b] \in Row
      /\ req[r].cfg \in Configs
  BY <1>1 DEF RecordPending, Typed, TypeOK, RequestShape, Request
<1>4. /\ \A s \in Requests \ {r} : req'[s] = req[s]
      /\ req'[r].at = b /\ req'[r].todo = req[r].todo \ {b}
  BY <1>1, <1>3 DEF Typed, TypeOK, Request
<1>5. /\ \A a \in Agents \ {b} : row'[a] = row[a]
      /\ row'[b].pending # None
  BY <1>1, <1>3, NoneFacts DEF WithPending, Typed, TypeOK, Row
<1>6. \A a \in Agents : /\ Offering(a)' = Offering(a)
                        /\ Working(a)' = Working(a)
                        /\ Answering(a)' = Answering(a)
  BY <1>2 DEF Offering, Working, Answering
<1>7. ASSUME NEW a \in Agents, Asking(a)'
      PROVE  Asking(a)
  <2>1. PICK s \in Requests : a \in Targets(s)'
    BY <1>7 DEF Asking
  <2>2. CASE s = r
    BY <1>1, <1>4, <2>1, <2>2, Zenon DEF Asking, Targets
  <2>3. CASE s # r
    BY <1>4, <2>1, <2>3 DEF Asking, Targets
  <2> QED
    BY <2>2, <2>3
<1>8. AnswersLast'
  BY <1>6, <1>7 DEF Places, AnswersLast
<1>9. ClientConnected'
  BY <1>2, <1>6 DEF Places, ClientConnected
<1>10. PendingKept'
  BY <1>4, <1>5, <1>6 DEF Places, PendingKept
<1> QED
  BY <1>8, <1>9, <1>10 DEF Places

\* The offer takes the place of the request.
LEMMA PlacesSend ==
  ASSUME Typed, Routing, Places, NEW r \in Requests, Send(r)
  PROVE  Places'
<1> DEFINE k == req[r].conn
<1>0. PICK b : b = req[r].at
  OBVIOUS
<1>1. UNCHANGED <<row, owner, task, synced, out, serving, up, conn>>
  BY DEF Send, store, server, agent
<1>2. k \in Conns /\ b \in Agents
  BY <1>0 DEF Send, Typed, RequestShape
<1>3. \A s \in Requests : /\ req'[s].todo \subseteq req[s].todo
                          /\ req'[s].at \in {None, req[s].at}
  BY SendLeaves
<1>4. \A a \in Agents : /\ Working(a)' = Working(a)
                        /\ Answering(a)' = Answering(a)
                        /\ Asking(a)' => Asking(a)
  BY <1>1, <1>3 DEF Working, Answering, Asking, Targets
<1>5. Asking(b) /\ ~ Answering(b) /\ row[b].pending # None
  <2>1. Asking(b) /\ row[b].pending # None
    BY <1>0, <1>2, NoneFacts DEF Asking, Targets, Places, PendingKept
  <2> QED
    BY <1>2, <2>1 DEF Places, AnswersLast
<1>6. \A a \in Agents : a # b => (Offering(a)' => Offering(a))
  <2>1. /\ \A c \in Conns \ {k} : down'[c] = down[c]
        /\ owner[k] \in {b, None}
    BY <1>0, <1>2 DEF Send, Routing, Typed, TypeOK
  <2> QED
    BY <1>1, <2>1, NoneFacts DEF Offering
<1>7. AnswersLast'
  BY <1>4, <1>5, <1>6 DEF Places, AnswersLast
<1>8. ClientConnected'
  BY <1>1, <1>4 DEF Places, ClientConnected
<1>9. PendingKept'
  <2>1. \A a \in Agents : (\E s \in Requests : req'[s].at = a)
                          => \E s \in Requests : req[s].at = a
    BY <1>3, NoneFacts
  <2> QED
    BY <1>1, <1>4, <1>5, <1>6, <2>1 DEF Places, PendingKept
<1> QED
  BY <1>7, <1>8, <1>9 DEF Places

\* An answer is recorded when nothing else of the push is left.
LEMMA PlacesConnection ==
  ASSUME Typed, Places, NEW c \in Conns, ConnectionStep(c)
  PROVE  Places'
<1>1. UNCHANGED <<req, down, task, synced, out, conn>>
  BY DEF ConnectionStep, Register, TouchRow, Recreate, RecordStatus, Close,
         wire, agent
<1>2. ClientConnected'
  BY <1>1 DEF Places, ClientConnected, Working
<1>3. \A a \in Agents : Asking(a)' = Asking(a) /\ Working(a)' = Working(a)
  BY <1>1 DEF Asking, Targets, Working
<1>4. CASE Register(c)
  <2>1. UNCHANGED <<row, owner>>
    BY <1>4 DEF Register, store
  <2>2. up[c] \in Seq(Maybe(Status)) /\ up[c] # << >>
    BY <1>4 DEF Register, Typed, TypeOK
  <2>3. /\ \A k \in Conns \ {c} : up'[k] = up[k] /\ serving'[k] = serving[k]
        /\ up'[c] = Tail(up[c]) /\ serving'[c].msg = Head(up[c])
    BY <1>4 DEF Register, Typed, TypeOK
  <2>4. /\ \E j \in 1..Len(up[c]) : Head(up[c]) = up[c][j]
        /\ \A i \in 1..Len(Tail(up[c])) :
             \E j \in 1..Len(up[c]) : Tail(up[c])[i] = up[c][j]
    BY <2>2, Dequeued
  <2>5. ASSUME NEW a \in Agents, Answering(a)'
        PROVE  Answering(a)
    <3> SUFFICES ASSUME NEW k \in Conns, owner[k] = a,
                        \/ serving'[k].msg # None
                        \/ \E i \in 1..Len(up'[k]) : up'[k][i] # None
                 PROVE  \/ serving[k].msg # None
                        \/ \E j \in 1..Len(up[k]) : up[k][j] # None
      BY <1>1, <2>1, <2>5 DEF Answering
    <3>1. CASE k = c
      BY <2>3, <2>4, <3>1, Zenon
    <3>2. CASE k # c
      BY <2>3, <3>2
    <3> QED
      BY <3>1, <3>2
  <2>6. \A a \in Agents : Offering(a)' = Offering(a)
    BY <1>1, <2>1 DEF Offering
  <2> QED
    BY <1>1, <1>2, <2>1, <2>5, <2>6, PlacesShrink
<1>5. CASE TouchRow(c) \/ Recreate(c) \/ RecordStatus(c)
  <2> DEFINE o == owner[c]
  <2>1. UNCHANGED <<owner, up>> /\ o \in Agents /\ row[o] \in Row
    BY <1>5 DEF TouchRow, Recreate, RecordStatus, wire, server, Typed, TypeOK,
                ServingShape
  <2>2. \A a \in Agents \ {o} : row'[a] = row[a]
    BY <1>5, <2>1 DEF TouchRow, Recreate, RecordStatus, Typed, TypeOK
  <2>3. /\ \A k \in Conns \ {c} : serving'[k] = serving[k]
        /\ serving'[c].msg \in {None, serving[c].msg}
    BY <1>5 DEF TouchRow, Recreate, RecordStatus, server, NotServing, Typed,
                TypeOK, Serving
  <2>4. \A a \in Agents : Answering(a)' => Answering(a)
    BY <1>1, <2>1, <2>3 DEF Answering
  <2>5. \A a \in Agents : Offering(a)' = Offering(a)
    BY <1>1, <2>1 DEF Offering
  <2>6. CASE TouchRow(c) \/ Recreate(c)
    <3>1. row' = [row EXCEPT ![o] = [row[o] EXCEPT !.exists = TRUE]]
      BY <2>6 DEF TouchRow, Recreate
    <3>2. \A a \in Agents : row'[a].pending = row[a].pending
      BY <2>1, <3>1 DEF Typed, TypeOK, Row
    <3> QED
      BY <1>1, <1>2, <2>4, <2>5, <3>2, PlacesShrink
  <2>7. CASE RecordStatus(c)
    <3>1. serving[c].msg # None
      BY <2>7, NoneFacts DEF RecordStatus, Typed, ServingShape
    <3>2. Answering(o)
      BY <2>1, <3>1 DEF Answering
    <3>3. ~ Asking(o) /\ ~ Offering(o) /\ ~ Working(o)
      BY <2>1, <3>2 DEF Places, AnswersLast
    <3>4. \A r \in Requests : req[r].at # o
      BY <2>1, <3>3, NoneFacts DEF Asking, Targets
    <3>5. PendingKept'
      BY <1>1, <1>3, <2>1, <2>2, <2>5, <3>3, <3>4 DEF Places, PendingKept
    <3>6. AnswersLast'
      BY <1>3, <2>4, <2>5 DEF Places, AnswersLast
    <3> QED
      BY <1>2, <3>5, <3>6 DEF Places
  <2> QED
    BY <1>5, <2>6, <2>7
<1>6. CASE Close(c)
  <2>1. /\ UNCHANGED <<row, serving>>
        /\ \A k \in Conns \ {c} : up'[k] = up[k] /\ owner'[k] = owner[k]
        /\ owner'[c] = None
    BY <1>6 DEF Close, store, Typed, TypeOK
  <2>2. \A a \in Agents : Answering(a)' => Answering(a)
    BY <1>1, <2>1, NoneFacts DEF Answering
  <2>3. \A a \in Agents : Offering(a)' => Offering(a)
    BY <1>1, <2>1, NoneFacts DEF Offering
  <2> QED
    BY <1>1, <1>2, <2>1, <2>2, <2>3, PlacesShrink
<1> QED
  BY <1>4, <1>5, <1>6 DEF ConnectionStep

\* A new connection of an undisturbed agent starts without a status.
LEMMA PlacesConnect ==
  ASSUME Typed, HonestInv, WireInv, Places, NEW b \in Agents, NEW c \in Conns,
         Connect(b, c)
  PROVE  Places'
<1>1. UNCHANGED <<row, req, down, task, synced, serving>>
  BY DEF Connect, store
<1>2. /\ \A k \in Conns \ {c} : up'[k] = up[k] /\ owner'[k] = owner[k]
      /\ owner[c] = None /\ owner'[c] = b /\ up'[c] = <<synced[b]>>
      /\ \A d \in Agents \ {b} : out'[d] = out[d] /\ conn'[d] = conn[d]
      /\ out'[b] = None /\ conn[b] = None /\ conn'[b] = c
  BY DEF Connect, Typed, TypeOK
<1>3. down[c] = << >> /\ serving[c].msg = None
  BY <1>2, NoneFacts
     DEF WireInv, OffersAsked, HonestInv, IdleServesNothing, Typed,
         ServingShape
<1>4. \A i \in 1..Len(up'[c]) : up'[c][i] = None
  <2>1. synced[b] = None
    BY <1>2 DEF Places, ClientConnected
  <2> QED
    BY <1>2, <2>1
<1>5. \A a \in Agents : Offering(a)' => Offering(a)
  BY <1>1, <1>2, <1>3 DEF Offering
<1>6. \A a \in Agents : Answering(a)' => Answering(a)
  BY <1>1, <1>2, <1>3, <1>4 DEF Answering
<1>7. ClientConnected'
  BY <1>1, <1>2, NoneFacts DEF Places, ClientConnected, Working
<1> QED
  BY <1>1, <1>5, <1>6, <1>7, PlacesShrink

LEMMA PlacesSendNext ==
  ASSUME Typed, HonestInv, Places, NEW b \in Agents, SendNext(b)
  PROVE  Places'
<1> DEFINE k == conn[b]
<1>1. UNCHANGED <<row, req, owner, down, task, synced, serving, conn>>
  BY DEF SendNext, store, server
<1>2. k \in Conns /\ owner[k] = b /\ up[k] \in Seq(Maybe(Status))
      /\ out[b] \in Maybe(Status)
  BY DEF SendNext, MaySend, HonestInv, ConnOwned, Typed, TypeOK, Maybe
<1>3. /\ \A c \in Conns \ {k} : up'[c] = up[c]
      /\ up'[k] = Append(up[k], out[b])
      /\ \A d \in Agents \ {b} : out'[d] = out[d]
      /\ out'[b] = None
  BY <1>2 DEF SendNext, Typed, TypeOK
<1>4. \A i \in 1..Len(up'[k]) :
        up'[k][i] = out[b] \/ \E j \in 1..Len(up[k]) : up'[k][i] = up[k][j]
  BY <1>2, <1>3, Enqueued
<1> HIDE DEF k
<1>5. ASSUME NEW a \in Agents, Answering(a)'
      PROVE  Answering(a)
  <2>1. CASE out'[a] # None
    BY <1>3, <2>1 DEF Answering
  <2>2. ASSUME NEW c \in Conns, owner[c] = a,
               \/ serving[c].msg # None
               \/ \E i \in 1..Len(up'[c]) : up'[c][i] # None
        PROVE  Answering(a)
    <3>1. CASE c = k
      BY <1>2, <1>4, <2>2, <3>1 DEF Answering
    <3>2. CASE c # k
      BY <1>3, <2>2, <3>2 DEF Answering
    <3> QED
      BY <3>1, <3>2
  <2> QED
    BY <1>1, <1>5, <2>1, <2>2 DEF Answering
<1>6. \A a \in Agents : Offering(a)' = Offering(a)
  BY <1>1 DEF Offering
<1>7. ClientConnected'
  BY <1>1 DEF Places, ClientConnected, Working
<1> QED
  BY <1>1, <1>5, <1>6, <1>7, PlacesShrink

\* The restart timer fires: the process forgets all it had.
LEMMA PlacesStopped ==
  ASSUME Typed, Places, NEW b \in Agents, Stopped(b)
  PROVE  Places'
<1>1. UNCHANGED <<row, req, owner, serving, up>>
  BY DEF Stopped, store, server
<1>2. /\ \A k \in Conns : down'[k] \in {<< >>, down[k]}
      /\ \A a \in Agents \ {b} : /\ synced'[a] = synced[a] /\ out'[a] = out[a]
                                 /\ task'[a] = task[a] /\ conn'[a] = conn[a]
      /\ synced'[b] = None /\ out'[b] = None
      /\ \A h \in Handlers : task'[b][h].pc = "idle"
  BY DEF Stopped, Disconnected, NoTask, Typed, TypeOK
<1>3. \A a \in Agents, h \in Handlers :
        task'[a][h].pc # "idle" => task[a][h].pc # "idle"
  BY <1>2
<1>4. \A a \in Agents : Offering(a)' => Offering(a)
  BY <1>1, <1>2 DEF Offering
<1>5. \A a \in Agents : Answering(a)' => Answering(a)
  BY <1>1, <1>2 DEF Answering
<1>6. ClientConnected'
  BY <1>2 DEF Places, ClientConnected, Working
<1> QED
  BY <1>1, <1>2, <1>3, <1>4, <1>5, <1>6, PlacesShrink

\* The handler takes the place of the offer.
LEMMA PlacesReceive ==
  ASSUME Typed, HonestInv, WireInv, Lone, Places, NEW b \in Agents,
         NEW h \in Handlers, Receive(b, h)
  PROVE  Places'
<1>1. UNCHANGED <<row, req, owner, synced, out, serving, up, conn>>
  BY DEF Receive, store, server
<1>2. conn[b] # None
  BY DEF Receive
<1>3. /\ Offering(b) /\ ~ Offering(b)'
      /\ \A a \in Agents \ {b} : /\ Offering(a)' = Offering(a)
                                 /\ Working(a)' = Working(a)
  BY LoneReceive
<1>4. ~ Asking(b) /\ ~ Answering(b) /\ row[b].pending # None
  BY <1>3 DEF Lone, OneStage, Places, AnswersLast, PendingKept
<1>5. \A a \in Agents : Asking(a)' = Asking(a) /\ Answering(a)' = Answering(a)
  BY <1>1 DEF Asking, Targets, Answering
<1>6. AnswersLast'
  BY <1>3, <1>4, <1>5 DEF Places, AnswersLast
<1>7. PendingKept'
  BY <1>1, <1>3, <1>4 DEF Places, PendingKept
<1>8. ClientConnected'
  BY <1>1, <1>2, <1>3 DEF Places, ClientConnected
<1> QED
  BY <1>6, <1>7, <1>8 DEF Places

LEMMA PlacesApply ==
  ASSUME Typed, Places, NEW b \in Agents, NEW h \in Handlers,
         Apply(b, h) \/ Reject(b, h)
  PROVE  Places'
<1>1. UNCHANGED <<row, req, owner, down, serving, up, conn, synced, out>>
  BY DEF Apply, Reject, store, server, wire
<1>2. \A a \in Agents, g \in Handlers :
        task'[a][g].pc # "idle" => task[a][g].pc # "idle"
  BY HandlerLeaves DEF HandlerStep
<1>3. \A a \in Agents : /\ Offering(a)' = Offering(a)
                        /\ Answering(a)' = Answering(a)
  BY <1>1 DEF Offering, Answering
<1>4. ClientConnected'
  BY <1>1, <1>2 DEF Places, ClientConnected, Working
<1> QED
  BY <1>1, <1>2, <1>3, <1>4, PlacesShrink

\* The answer takes the place of the handler.
LEMMA PlacesReport ==
  ASSUME Typed, Lone, Places, NEW b \in Agents, NEW h \in Handlers,
         Report(b, h)
  PROVE  Places'
<1>1. UNCHANGED <<row, req, owner, down, serving, up, conn>>
  BY DEF Report, store, server, wire
<1>2. /\ \A a \in Agents, g \in Handlers :
           a # b \/ g # h => task'[a][g] = task[a][g]
      /\ task'[b][h].pc = "idle" /\ task[b][h].pc # "idle"
  BY DEF Report, NoTask, Typed, TypeOK
<1>3. \A a \in Agents \ {b} : synced'[a] = synced[a] /\ out'[a] = out[a]
  BY DEF Report, ReportStatus, Typed, TypeOK
<1>4. Working(b) /\ conn[b] # None
  BY <1>2 DEF Working, Places, ClientConnected
<1>5. ~ Working(b)' /\ ~ Asking(b) /\ ~ Offering(b)
  BY <1>2, <1>4 DEF Working, Lone, OneStage, OneTask
<1>6. \A a \in Agents : Asking(a)' = Asking(a) /\ Offering(a)' = Offering(a)
  BY <1>1 DEF Asking, Targets, Offering
<1>7. \A a \in Agents \ {b} : /\ Working(a)' = Working(a)
                              /\ Answering(a)' = Answering(a)
  BY <1>1, <1>2, <1>3 DEF Working, Answering
<1>8. AnswersLast'
  BY <1>5, <1>6, <1>7 DEF Places, AnswersLast
<1>9. PendingKept'
  BY <1>1, <1>4, <1>5, <1>6, <1>7 DEF Places, PendingKept
<1>10. ClientConnected'
  BY <1>1, <1>3, <1>4, <1>7 DEF Places, ClientConnected
<1> QED
  BY <1>8, <1>9, <1>10 DEF Places

PlacesInv == Undisturbed => Places

\* The counters of failures and deletions only grow.
LEMMA UndisturbedBefore ==
  ASSUME Typed, [Next]_vars, Undisturbed'
  PROVE  /\ Undisturbed
         /\ ~ ServerCrash
         /\ \A a \in Agents : ~ Drop(a) /\ ~ Crash(a) /\ ~ DeleteAgent(a)
<1>1. used \in Counter
  BY DEF Typed, TypeOK
<1>2. /\ ~ ServerCrash
      /\ \A a \in Agents : ~ Drop(a) /\ ~ Crash(a) /\ ~ DeleteAgent(a)
  BY <1>1 DEF ServerCrash, Drop, Crash, DeleteAgent, Undisturbed, Calm, Counter
<1>3. UNCHANGED used \/ used' = [used EXCEPT !.requests = @ + 1]
  <2>1. CASE OperatorStep
    BY <1>2, <2>1, OperatorCases DEF Begin, RecordFails
  <2>2. ASSUME NEW r \in Requests, RequestStep(r)
        PROVE  UNCHANGED used
    BY <2>2 DEF RequestStep, RecordPending, Lookup, Send
  <2>3. ASSUME NEW c \in Conns, ConnectionStep(c)
        PROVE  UNCHANGED used
    BY <2>3 DEF ConnectionStep, Register, TouchRow, Recreate, RecordStatus,
                Close
  <2>4. ASSUME NEW a \in Agents,
               \/ \E c \in Conns : Connect(a, c)
               \/ \E h \in Handlers : \/ Receive(a, h) \/ HandlerStep(a, h)
                                     \/ WriteThrough(a, h)
               \/ SendNext(a) \/ Restart(a) \/ Start(a)
        PROVE  UNCHANGED used
    BY <2>4 DEF Connect, Receive, HandlerStep, Apply, Reject, Report,
                WriteThrough, SendNext, Restart, Start
  <2> QED
    BY <1>2, <2>1, <2>2, <2>3, <2>4 DEF Next, Failure, vars
<1>4. Undisturbed
  BY <1>1, <1>3 DEF Undisturbed, Calm, Counter
<1> QED
  BY <1>2, <1>4

LEMMA PlacesStep ==
  /\ Serial /\ Typed /\ Routing /\ HonestInv /\ ProvInv /\ Lone /\ PlacesInv
  /\ [Next]_vars
  => PlacesInv'
<1> SUFFICES ASSUME Serial, Typed, Routing, HonestInv, ProvInv, Lone, PlacesInv,
                    [Next]_vars, Undisturbed'
             PROVE  Places'
  BY DEF PlacesInv
<1>1. /\ Places /\ WireInv /\ ~ ServerCrash
      /\ \A a \in Agents : ~ Drop(a) /\ ~ Crash(a) /\ ~ DeleteAgent(a)
  BY UndisturbedBefore DEF PlacesInv, ProvInv
<1>2. ASSUME UNCHANGED <<row, owner, down, task, synced, out, serving, up,
                         conn>>,
             \A r \in Requests : /\ req'[r].todo \subseteq req[r].todo
                                 /\ req'[r].at \in {None, req[r].at}
      PROVE  Places'
  <2>1. /\ \A a \in Agents : /\ Offering(a)' = Offering(a)
                             /\ Answering(a)' = Answering(a)
        /\ ClientConnected'
    BY <1>1, <1>2 DEF Offering, Answering, Places, ClientConnected, Working
  <2> QED
    BY <1>1, <1>2, <2>1, PlacesShrink
<1>3. CASE OperatorStep
  <2>1. ASSUME NEW r \in Requests, RecordFails(r)
        PROVE  Places'
    <3>1. UNCHANGED <<row, owner, down, task, synced, out, serving, up, conn>>
      BY <2>1 DEF RecordFails, store, server, wire, agent
    <3>2. \A s \in Requests : /\ req'[s].todo \subseteq req[s].todo
                              /\ req'[s].at \in {None, req[s].at}
      BY <2>1, TargetsLeft
    <3> QED
      BY <1>2, <3>1, <3>2
  <2>2. ASSUME NEW r \in Requests, NEW T \in SUBSET Agents,
               NEW c \in Configs, Begin(r, T, c)
        PROVE  Places'
    BY <1>1, <2>2, PlacesBegin DEF Begin
  <2> QED
    BY <1>1, <1>3, <2>1, <2>2, OperatorCases
<1>4. ASSUME NEW r \in Requests, RequestStep(r)
      PROVE  Places'
  <2>1. CASE Lookup(r)
    <3>1. UNCHANGED <<row, owner, down, task, synced, out, serving, up, conn>>
      BY <2>1 DEF Lookup, store, server, wire, agent
    <3>2. \A s \in Requests : /\ req'[s].todo \subseteq req[s].todo
                              /\ req'[s].at \in {None, req[s].at}
      BY <2>1, TargetsLeft
    <3> QED
      BY <1>2, <3>1, <3>2
  <2> QED
    BY <1>1, <1>4, <2>1, PlacesRecordPending, PlacesSend DEF RequestStep
<1>5. ASSUME NEW c \in Conns, ConnectionStep(c)
      PROVE  Places'
  BY <1>1, <1>5, PlacesConnection
<1>6. ASSUME NEW a \in Agents, NEW c \in Conns, Connect(a, c)
      PROVE  Places'
  BY <1>1, <1>6, PlacesConnect
<1>7. ASSUME NEW a \in Agents, NEW h \in Handlers,
             Receive(a, h) \/ HandlerStep(a, h)
      PROVE  Places'
  BY <1>1, <1>7, PlacesReceive, PlacesApply, PlacesReport DEF HandlerStep
<1>8. ASSUME NEW a \in Agents, SendNext(a)
      PROVE  Places'
  BY <1>1, <1>8, PlacesSendNext
<1>9. ASSUME NEW a \in Agents, Restart(a)
      PROVE  Places'
  BY <1>1, <1>9, PlacesStopped DEF Restart
<1>10. CASE UNCHANGED <<row, req, owner, down, task, synced, out, serving, up,
                        conn>>
  <2>1. \A r \in Requests : /\ req'[r].todo \subseteq req[r].todo
                            /\ req'[r].at \in {None, req[r].at}
    BY <1>10
  <2> QED
    BY <1>2, <1>10, <2>1
<1>11. ASSUME NEW a \in Agents,
              Start(a) \/ \E h \in Handlers : WriteThrough(a, h)
       PROVE  Places'
  BY <1>10, <1>11 DEF Start, WriteThrough, store, server, wire
<1>12. CASE UNCHANGED vars
  BY <1>10, <1>12 DEF vars
<1> QED
  BY <1>1, <1>3, <1>4, <1>5, <1>6, <1>7, <1>8, <1>9, <1>11, <1>12
     DEF Next, Failure

LEMMA PlacesInit == Init => PlacesInv
<1> SUFFICES ASSUME Init PROVE Places
  BY DEF PlacesInv
<1>1. \A a \in Agents : /\ ~ Asking(a) /\ ~ Offering(a)
                        /\ ~ Working(a) /\ ~ Answering(a)
  BY NoneFacts
     DEF Init, NotServing, NoRequest, NoTask, Asking, Targets, Offering,
         Working, Answering
<1>2. PendingKept /\ ClientConnected
  BY <1>1, NoneFacts DEF Init, NoRow, NoRequest, PendingKept, ClientConnected
<1> QED
  BY <1>1, <1>2 DEF Places, AnswersLast

LEMMA PendingPlaced ==
  Typed /\ HonestInv /\ PlacesInv => PendingWhileOutstanding
<1> SUFFICES ASSUME Typed, HonestInv, Places, NEW a \in Agents,
                    \/ conn[a] # None /\ down[conn[a]] # << >>
                    \/ \E h \in Handlers : task[a][h].pc = "apply"
             PROVE  row[a].pending # None
  BY DEF PlacesInv, PendingWhileOutstanding
<1>1. CASE conn[a] # None /\ down[conn[a]] # << >>
  <2>1. Offering(a)
    BY <1>1 DEF HonestInv, ConnOwned, Offering, Typed, TypeOK, Maybe
  <2> QED
    BY <2>1 DEF Places, PendingKept
<1>2. CASE \E h \in Handlers : task[a][h].pc = "apply"
  BY <1>2 DEF Working, Places, PendingKept
<1> QED
  BY <1>1, <1>2

\* When operators wait until an agent has settled, and nothing failed and no
\* row was deleted, an offer on the wire or in a handler is still pending in
\* the row: the answer to an earlier push never clears a later one.
THEOREM PendingCorrect == ASSUME Serial
                          PROVE  Spec => []PendingWhileOutstanding
<1>1. /\ Typed /\ Routing /\ HonestInv /\ ProvInv /\ Lone /\ PlacesInv
      /\ [Next]_vars
      => PlacesInv'
  BY PlacesStep
<1> QED
  BY <1>1, LoneAlways, PendingPlaced, PlacesInit, PTL DEF Spec
=============================================================================
