---------------------------- MODULE AgentReports ----------------------------
(***************************************************************************)
(* What an agent tells the fleet server about itself: under which identity *)
(* it reports (loadOrCreateInstanceUID), which config file it has          *)
(* (checkEffectiveConfigDrift, buildEffectiveConfig) and since when it     *)
(* runs (recordStartedAt), over connections that come and go and processes *)
(* that restart.                                                           *)
(*                                                                         *)
(* Processes are numbered as they start.  A number also stands for the     *)
(* process's started_at, and for the random identity if it draws one.  The *)
(* OpAMP client is external: it merges what is to be said into the next    *)
(* message, and puts the effective config in the first of a connection.    *)
(***************************************************************************)
EXTENDS Naturals, Sequences, SequencesExt

CONSTANTS
  Configs, InitialConfig,  \* contents of the config file, by their hash
  Conns,              \* connections that exist at the same time
  None,
  Short,              \* an identity file that does not decode
  maxRestartHistory,
  MaxEvents,          \* bound: process ends, edits of the config file, lost
                      \* connections, server crashes, failed reads and writes
  MaxQueue            \* bound: messages unread on a connection

ASSUME ReportsAssumption ==
  /\ InitialConfig \in Configs /\ None \notin Configs \union Conns
  /\ {None, Short} \intersect Nat = {} /\ None # Short
  /\ maxRestartHistory \in Nat \ {0} /\ MaxEvents \in Nat /\ MaxQueue \in Nat

Starts == 1..MaxEvents + 1
Maybe(S) == S \union {None}

VARIABLES
  file,       \* content of config.yaml
  idFile,     \* the file at fleet_instance_id_path
  pc, uid,    \* the agent process, and the identity it uses
  starts,     \* processes started; the last is the one at work
  hash,       \* configFileHash's result, while a check is under way
  reported,   \* lastEffectiveConfigHash
  next,       \* the client's next message
  conn,       \* the agent's connection
  inbox,      \* inbox[k]: messages the server has not read
  handler,    \* handler[k]: its handleAgentMessage
  row,        \* row[u]: the inventory row of an identity
  events,
  lapsed,     \* history: identities whose file was not written in full, or
              \* could not be read by a later start
  counted,    \* history: starts recorded for an identity
  overlap,    \* history: a connection opened while an older one had messages
  told,       \* history: the config that this process last told the server
  returned    \* history: the file came back to what the agent holds as
              \* reported after the server had been told another

agentVars  == <<idFile, pc, uid, starts, hash, reported, next, told>>
serverVars == <<handler, row, counted>>
vars == <<file, agentVars, conn, inbox, serverVars, events, lapsed,
          overlap, returned>>

Content == [snap : Maybe(Starts), eff : Maybe(Configs)]
Message == [uid : Starts, snap : Maybe(Starts), eff : Maybe(Configs)]
Handler == [pc : {"idle", "write", "eff"}, msg : Maybe(Message),
            last : Maybe(Starts), history : Seq(Starts)]
Row     == [known : BOOLEAN, last : Maybe(Starts), history : Seq(Starts),
            eff : Maybe(Configs)]

Nothing == [snap |-> None, eff |-> None]
Idle    == [pc |-> "idle", msg |-> None, last |-> None, history |-> << >>]
NoRow   == [known |-> FALSE, last |-> None, history |-> << >>, eff |-> None]

Init ==
  /\ file = InitialConfig /\ idFile = None
  /\ pc = "down" /\ uid = None /\ starts = 0
  /\ hash = None /\ reported = None /\ next = Nothing /\ told = None
  /\ conn = None
  /\ inbox = [k \in Conns |-> << >>] /\ handler = [k \in Conns |-> Idle]
  /\ row = [u \in Starts |-> NoRow]
  /\ events = 0
  /\ lapsed = {} /\ counted = [u \in Starts |-> {}]
  /\ overlap = FALSE /\ returned = FALSE

Event == events < MaxEvents /\ events' = events + 1

-----------------------------------------------------------------------------
(* The agent process and its identity.                                     *)

BugDecodes == FALSE
Decodes == idFile \in Starts

\* systemd starts the process; it reads its identity or draws a new one.
Start ==
  /\ pc = "down"
  /\ starts' = starts + 1
  /\ IF Decodes THEN pc' = "up" /\ uid' = idFile
     ELSE pc' = "create" /\ uid' = starts + 1
  /\ UNCHANGED <<file, idFile, hash, reported, next, told, conn, inbox,
                 serverVars, events, lapsed, overlap, returned>>

\* The file is good but reading it fails: a new identity is drawn all the same,
\* and goes on to replace the old one in the file.
ReadIdFails ==
  /\ pc = "down" /\ Decodes /\ Event
  /\ starts' = starts + 1 /\ pc' = "create" /\ uid' = starts + 1
  /\ lapsed' = lapsed \union {idFile}
  /\ UNCHANGED <<file, idFile, hash, reported, next, told, conn, inbox,
                 serverVars, overlap, returned>>

IdentityStep(l, x) ==
  /\ pc' = l /\ idFile' = x
  /\ UNCHANGED <<file, uid, starts, hash, reported, next, told, conn, inbox,
                 serverVars, overlap, returned>>

\* os.WriteFile opens and truncates the file, then writes it.
CreateIdFile ==
  pc = "create" /\ IdentityStep("write", Short) /\ UNCHANGED <<events, lapsed>>
WriteIdFile ==
  pc = "write" /\ IdentityStep("up", uid) /\ UNCHANGED <<events, lapsed>>

\* MkdirAll or WriteFile fails: the identity serves for this run only.
IdFileFails ==
  /\ pc \in {"create", "write"} /\ Event
  /\ IdentityStep("up", idFile)
  /\ lapsed' = lapsed \union {uid}

\* The connection ends; the server may read some of what it carried.
Disconnected(n) ==
  /\ conn' = None
  /\ inbox' = [k \in Conns |-> IF k = conn THEN SubSeq(inbox[k], 1, n)
                               ELSE inbox[k]]

Unread == {0} \union UNION {1..Len(inbox[k]) : k \in Conns \intersect {conn}}

\* The process ends: a crash, or its own restart after an applied update.
Stop ==
  /\ pc # "down" /\ Event
  /\ pc' = "down" /\ uid' = None
  /\ hash' = None /\ reported' = None /\ next' = Nothing /\ told' = None
  /\ lapsed' = IF pc = "up" THEN lapsed ELSE lapsed \union {uid}
  /\ \E n \in Unread : Disconnected(n)
  /\ UNCHANGED <<file, idFile, starts, serverVars, overlap, returned>>

-----------------------------------------------------------------------------
(* Its reports.                                                            *)

\* The file is replaced: by hand, by the editor, by an applied push.
Edit(c) ==
  /\ c # file /\ Event
  /\ file' = c
  /\ returned' = (returned \/ (c = reported /\ told # reported))
  /\ UNCHANGED <<agentVars, conn, inbox, serverVars, lapsed, overlap>>

ReportStep ==
  UNCHANGED <<file, idFile, pc, uid, starts, conn, inbox, serverVars, lapsed,
              overlap, returned>>

\* reportOnce: the snapshot; then checkEffectiveConfigDrift reads the file for
\* its hash.
Tick ==
  /\ pc = "up" /\ hash = None
  /\ next' = [next EXCEPT !.snap = starts]
  /\ hash' = IF file = reported THEN None ELSE file
  /\ UNCHANGED <<reported, told, events>> /\ ReportStep

\* UpdateEffectiveConfig reads it again, through buildEffectiveConfig.
UpdateEffective ==
  /\ hash # None
  /\ next' = [next EXCEPT !.eff = file] /\ told' = file
  /\ reported' = hash /\ hash' = None
  /\ UNCHANGED events /\ ReportStep

\* The first read fails, or the second; the next tick tries again.
HashFails ==
  /\ pc = "up" /\ hash = None /\ Event
  /\ next' = [next EXCEPT !.snap = starts]
  /\ UNCHANGED <<hash, reported, told>> /\ ReportStep

BugUpdateFails ==
  /\ hash # None /\ Event
  /\ reported' = hash /\ hash' = None
  /\ UNCHANGED <<next, told>> /\ ReportStep
UpdateFails ==
  /\ hash # None /\ Event
  /\ hash' = None
  /\ UNCHANGED <<next, reported, told>> /\ ReportStep

\* The client has something to send.
Send ==
  /\ conn # None /\ next # Nothing /\ Len(inbox[conn]) < MaxQueue
  /\ inbox' = [inbox EXCEPT ![conn] =
                 Append(@, [uid |-> uid, snap |-> next.snap, eff |-> next.eff])]
  /\ next' = Nothing
  /\ UNCHANGED <<file, idFile, pc, uid, starts, hash, reported, told, conn,
                 serverVars, events, lapsed, overlap, returned>>

Busy(k) == inbox[k] # << >> \/ handler[k].pc # "idle"

\* The first message of a connection has the config file as it is now.
\* (Which of the free connections it is makes no difference.)
Free == {k \in Conns : ~ Busy(k)}

Connect ==
  /\ pc = "up" /\ conn = None /\ Free # {}
  /\ conn' = CHOOSE k \in Free : TRUE
  /\ inbox' = [inbox EXCEPT ![conn'] =
                 <<[uid |-> uid, snap |-> next.snap, eff |-> file]>>]
  /\ next' = Nothing /\ told' = file
  /\ overlap' = (overlap \/ Free # Conns)
  /\ UNCHANGED <<file, idFile, pc, uid, starts, hash, reported, serverVars,
                 events, lapsed, returned>>

Drop ==
  /\ conn # None /\ Event
  /\ \E n \in Unread : Disconnected(n)
  /\ UNCHANGED <<file, agentVars, serverVars, lapsed, overlap, returned>>

-----------------------------------------------------------------------------
(* The fleet server: one goroutine per connection.                         *)

HandlerStep(k, h) ==
  /\ handler' = [handler EXCEPT ![k] = h]
  /\ UNCHANGED <<file, agentVars, conn, events, lapsed, overlap, returned>>

After(msg) ==
  IF msg.eff = None THEN Idle ELSE [Idle EXCEPT !.pc = "eff", !.msg = msg]

\* upsertAgentDescription or touchLastSeen; for a snapshot, the SELECT of
\* recordStartedAt, which ends there if it is of the same process.
Receive(k) ==
  LET msg == Head(inbox[k])
      r   == row[msg.uid]
  IN  /\ handler[k].pc = "idle" /\ inbox[k] # << >>
      /\ inbox' = [inbox EXCEPT ![k] = Tail(@)]
      /\ row' = [row EXCEPT ![msg.uid].known = TRUE]
      /\ HandlerStep(k, IF msg.snap \in {None, r.last} THEN After(msg)
                        ELSE [pc |-> "write", msg |-> msg, last |-> r.last,
                              history |-> r.history])
      /\ UNCHANGED counted

BugLastOnes(s) == s
LastOnes(s) ==
  IF Len(s) <= maxRestartHistory THEN s
  ELSE SubSeq(s, Len(s) - maxRestartHistory + 1, Len(s))

BugNewHistory(h) == LastOnes(Append(h.history, h.msg.snap))
NewHistory(h) ==
  IF h.last = None THEN h.history ELSE LastOnes(Append(h.history, h.msg.snap))

\* Its INSERT, with what it read before.
WriteStartedAt(k) ==
  LET h == handler[k]
  IN  /\ h.pc = "write"
      /\ row' = [row EXCEPT ![h.msg.uid].known = TRUE,
                            ![h.msg.uid].last = h.msg.snap,
                            ![h.msg.uid].history = NewHistory(h)]
      /\ counted' = [counted EXCEPT ![h.msg.uid] = @ \union {h.msg.snap}]
      /\ HandlerStep(k, After(h.msg))
      /\ UNCHANGED inbox

\* setEffectiveConfigHash.
SetEffective(k) ==
  LET h == handler[k]
  IN  /\ h.pc = "eff"
      /\ row' = [row EXCEPT ![h.msg.uid].known = TRUE,
                            ![h.msg.uid].eff = h.msg.eff]
      /\ HandlerStep(k, Idle)
      /\ UNCHANGED <<inbox, counted>>

ServerCrash ==
  /\ Event
  /\ handler' = [k \in Conns |-> Idle]
  /\ inbox' = [k \in Conns |-> << >>] /\ conn' = None
  /\ UNCHANGED <<file, agentVars, row, counted, lapsed, overlap, returned>>

-----------------------------------------------------------------------------

\* A connection's goroutine; a process that comes up; its ticker.
Handle(k) == Receive(k) \/ WriteStartedAt(k) \/ SetEffective(k)

Boot   == Start \/ CreateIdFile \/ WriteIdFile
Report == Tick \/ UpdateEffective

Next ==
  \/ Boot \/ ReadIdFails \/ IdFileFails \/ Stop
  \/ \E c \in Configs : Edit(c)
  \/ Report \/ HashFails \/ UpdateFails \/ Send
  \/ Connect \/ \E k \in Conns : Handle(k)
  \/ Drop \/ ServerCrash

Spec == Init /\ [][Next]_vars

\* systemd, the ticker, the client's reconnection, the server's goroutines.
FairSpec ==
  /\ Spec
  /\ WF_vars(Boot) /\ WF_vars(Report) /\ WF_vars(Send) /\ WF_vars(Connect)
  /\ \A k \in Conns : WF_vars(Handle(k))

-----------------------------------------------------------------------------
(* Properties.                                                             *)

\* Every variable keeps the shape the code gives it.
TypeOK ==
  /\ file \in Configs /\ idFile \in Starts \union {None, Short}
  /\ pc \in {"down", "create", "write", "up"} /\ uid \in Maybe(Starts)
  /\ starts \in Starts \union {0}
  /\ {hash, reported, told} \subseteq Maybe(Configs)
  /\ next \in Content
  /\ conn \in Maybe(Conns)
  /\ inbox \in [Conns -> Seq(Message)]
  /\ handler \in [Conns -> Handler]
  /\ row \in [Starts -> Row]
  /\ \A u \in Starts : Len(row[u].history) <= maxRestartHistory
  /\ events \in 0..MaxEvents
  /\ lapsed \subseteq Starts /\ counted \in [Starts -> SUBSET Starts]
  /\ overlap \in BOOLEAN /\ returned \in BOOLEAN

\* "a restart reconnects as the same agent instead of enrolling as a new one
\* every time" (loadOrCreateInstanceUID): an identity the server knows is the
\* one in the file, unless the process that drew it could not write it there or
\* a later one could not read it.
EnrolsOnce == \A u \in Starts : row[u].known => idFile = u \/ u \in lapsed

\* A history in order, of the last maxRestartHistory of the starts in S but the
\* first: what it lacks of them is older than all it has.
KeepsRestarts(history, S) ==
  LET Restarts == {s \in S : \E first \in S : first < s}
      Kept     == ToSet(history)
  IN  /\ \A i, j \in DOMAIN history : i < j => history[i] < history[j]
      /\ Kept \subseteq Restarts
      /\ \A s \in Restarts \ Kept :
           Len(history) = maxRestartHistory /\ s < history[1]

\* The restart history of an agent is every start it reported, in order,
\* except the first ("recorded as the baseline, not counted as a restart"),
\* and of those the last maxRestartHistory; unless messages of an older
\* connection were still on their way when a newer one began.
RestartsCounted ==
  overlap \/ \A u \in Starts : KeepsRestarts(row[u].history, counted[u])

\* "checked against the live file every ~15s" (README): the server comes to
\* know the file's hash whatever was lost or failed.  Two ways are left in which
\* it does not: connections that overlap, and a file that comes back to what
\* the agent last noted after the server was told another.
EffectiveKnown ==
  [](~ overlap /\ ~ returned) => <>[](pc = "up" /\ row[uid].eff = file)
=============================================================================
