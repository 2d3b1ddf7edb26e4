------------------------- MODULE AgentReportsProofs -------------------------
(***************************************************************************)
(* For any configs, connections and bounds, whatever is lost, late or      *)
(* restarted: an identity the fleet server knows is the one in the agent's *)
(* file, or one whose file was not written in full or could not be read;   *)
(* and while no connections overlap, the restart history of an agent is    *)
(* the restarts it reported.                                               *)
(***************************************************************************)
EXTENDS AgentReports, SequenceTheorems, TLAPS

Histories == {s \in Seq(Starts) : Len(s) <= maxRestartHistory}

\* TypeOK in three parts.
AgentTyped ==
  /\ file \in Configs /\ idFile \in Starts \union {None, Short}
  /\ pc \in {"down", "create", "write", "up"} /\ uid \in Maybe(Starts)
  /\ starts \in Starts \union {0}
  /\ {hash, reported, told} \subseteq Maybe(Configs)
  /\ next \in Content
  /\ conn \in Maybe(Conns)
  /\ events \in 0..MaxEvents
  /\ lapsed \subseteq Starts
  /\ overlap \in BOOLEAN /\ returned \in BOOLEAN

WireTyped == inbox \in [Conns -> Seq(Message)]

ServerTyped ==
  /\ handler \in [Conns -> Handler]
  /\ row \in [Starts -> Row]
  /\ \A u \in Starts : row[u].history \in Histories
  /\ counted \in [Starts -> SUBSET Starts]

\* What is at work has what it works with, and there have been no more starts
\* than ends of processes, and one.
AgentShape ==
  /\ starts <= events + 1
  /\ pc = "down" => starts <= events
  /\ pc # "down" => uid \in Starts /\ starts \in Starts
  /\ pc # "up" => hash = None /\ conn = None

HandlerShape ==
  \A k \in Conns :
    /\ handler[k].pc # "idle" => handler[k].msg \in Message
    /\ handler[k].pc = "write" => handler[k].msg.snap \in Starts
    /\ handler[k].pc = "eff" => handler[k].msg.eff \in Configs
    /\ handler[k].history \in Histories

AgentOK == AgentTyped /\ AgentShape
ServerOK == ServerTyped /\ HandlerShape
Typed == AgentOK /\ WireTyped /\ ServerOK

LEMMA Constants ==
  /\ InitialConfig \in Configs /\ None \notin Configs /\ None \notin Conns
  /\ None \notin Starts /\ Short \notin Starts /\ None # Short
  /\ maxRestartHistory \in Nat \ {0} /\ MaxEvents \in Nat /\ MaxQueue \in Nat
  /\ Starts \subseteq Nat
BY ReportsAssumption DEF Starts

LEMMA LastOnesTyped ==
  ASSUME NEW s \in Seq(Starts)
  PROVE  LastOnes(s) \in Histories
<1>1. Len(s) \in Nat /\ maxRestartHistory \in Nat \ {0}
  BY LenProperties, Constants
<1>2. CASE Len(s) <= maxRestartHistory
  BY <1>2 DEF LastOnes, Histories
<1>3. CASE ~ Len(s) <= maxRestartHistory
  <2> DEFINE m == Len(s) - maxRestartHistory + 1
             t == SubSeq(s, m, Len(s))
  <2>1. m \in 1..Len(s) /\ Len(s) \in 1..Len(s) /\ m <= Len(s) + 1
    BY <1>1, <1>3
  <2>2. t \in Seq(Starts) /\ Len(t) = Len(s) - m + 1
    BY <2>1, <1>1, SubSeqProperties
  <2>3. Len(t) <= maxRestartHistory
    BY <2>2, <1>1
  <2> QED
    BY <2>2, <2>3, <1>3 DEF LastOnes, Histories
<1> QED
  BY <1>2, <1>3

LEMMA EmptyHistory == << >> \in Histories /\ << >> \in Seq(Message)
<1>1. << >> \in Seq(Starts) /\ Len(<< >>) = 0 /\ << >> \in Seq(Message)
  BY EmptySeq
<1> QED
  BY <1>1, Constants DEF Histories

LEMMA NewHistoryTyped ==
  ASSUME NEW h \in Handler, h.history \in Histories, h.msg.snap \in Starts
  PROVE  NewHistory(h) \in Histories
<1>1. h.history \in Seq(Starts)
  BY DEF Histories
<1>2. Append(h.history, h.msg.snap) \in Seq(Starts)
  BY <1>1, AppendProperties
<1> QED
  BY <1>2, LastOnesTyped DEF NewHistory

\* Records: which fields a step may replace.
LEMMA RowTouched ==
  ASSUME NEW r \in Row
  PROVE  [r EXCEPT !.known = TRUE] \in Row
BY DEF Row

LEMMA RowCounted ==
  ASSUME NEW r \in Row, NEW s \in Starts, NEW h \in Histories
  PROVE  [r EXCEPT !.known = TRUE, !.last = s, !.history = h] \in Row
BY DEF Row, Maybe, Histories

LEMMA RowTold ==
  ASSUME NEW r \in Row, NEW c \in Configs
  PROVE  [r EXCEPT !.known = TRUE, !.eff = c] \in Row
BY DEF Row, Maybe

LEMMA AfterTyped ==
  ASSUME NEW m \in Message
  PROVE  /\ After(m) \in Handler
         /\ After(m).pc # "idle" => After(m).msg = m /\ m.eff \in Configs
         /\ After(m).pc # "write"
         /\ After(m).history = << >>
<1>1. Idle \in Handler
  BY EmptySeq DEF Idle, Handler, Maybe
<1>2. CASE m.eff = None
  BY <1>1, <1>2 DEF After, Idle
<1>3. CASE m.eff # None
  <2>1. After(m) = [pc |-> "eff", msg |-> m, last |-> None, history |-> << >>]
    BY <1>3 DEF After, Idle
  <2>2. m.eff \in Configs
    BY <1>3 DEF Message, Maybe
  <2>3. << >> \in Seq(Starts)
    BY EmptySeq
  <2> QED
    BY <2>1, <2>2, <2>3 DEF Handler, Maybe
<1> QED
  BY <1>2, <1>3

-----------------------------------------------------------------------------

LEMMA TypedInit == Init => Typed
<1> SUFFICES ASSUME Init
             PROVE  Typed
  OBVIOUS
<1>1. Idle \in Handler /\ NoRow \in Row
  BY EmptySeq DEF Idle, Handler, NoRow, Row, Maybe
<1>2. \A u \in Starts : row[u] = NoRow
  BY DEF Init
<1>3. ServerOK
  <2>1. handler = [k \in Conns |-> Idle] /\ row = [u \in Starts |-> NoRow]
    BY DEF Init
  <2>2. handler \in [Conns -> Handler] /\ row \in [Starts -> Row]
    BY <2>1, <1>1
  <2>3. counted \in [Starts -> SUBSET Starts]
    BY DEF Init
  <2>4. \A u \in Starts : row[u].history \in Histories
    BY <1>2, EmptyHistory DEF NoRow
  <2>5. HandlerShape
    BY <2>1, EmptyHistory DEF HandlerShape, Idle
  <2> QED
    BY <2>2, <2>3, <2>4, <2>5 DEF ServerOK, ServerTyped
<1>4. WireTyped
  BY EmptySeq DEF Init, WireTyped
<1>5. AgentOK
  <2>1. next \in Content
    BY DEF Init, Nothing, Content, Maybe
  <2>2. starts \in Starts \union {0} /\ events \in 0..MaxEvents
    BY Constants DEF Init
  <2>3. lapsed \subseteq Starts
    BY DEF Init
  <2>4. /\ file \in Configs /\ idFile \in Starts \union {None, Short}
        /\ uid \in Maybe(Starts) /\ conn \in Maybe(Conns)
        /\ {hash, reported, told} \subseteq Maybe(Configs)
    BY Constants DEF Init, Maybe
  <2>5. AgentShape
    BY DEF Init, AgentShape
  <2> QED
    BY <2>1, <2>2, <2>3, <2>4, <2>5 DEF Init, AgentOK, AgentTyped
<1> QED
  BY <1>3, <1>4, <1>5 DEF Typed

LEMMA TypedTypeOK == Typed => TypeOK
BY DEF Typed, AgentOK, AgentTyped, WireTyped, ServerOK, ServerTyped, TypeOK,
       Histories

-----------------------------------------------------------------------------
(* The agent's steps.                                                      *)

LEMMA EventTyped ==
  AgentOK /\ Event =>
    events' \in 0..MaxEvents /\ starts <= events' /\ starts <= events' + 1
<1>1. AgentOK => starts \in Nat /\ events \in 0..MaxEvents /\ starts <= events + 1
  BY Constants DEF AgentOK, AgentTyped, AgentShape
<1> QED
  BY <1>1, Constants DEF Event

LEMMA BootTyped == AgentOK /\ (Boot \/ ReadIdFails \/ IdFileFails) => AgentOK'
<1> SUFFICES ASSUME AgentOK, Boot \/ ReadIdFails \/ IdFileFails
             PROVE  AgentOK'
  OBVIOUS
<1> USE Constants DEF AgentOK, AgentTyped, AgentShape, Maybe
<1>1. CASE Start
  <2>1. starts + 1 \in Starts
    BY <1>1 DEF Start, Starts
  <2> QED
    BY <1>1, <2>1 DEF Start, Decodes
<1>2. CASE CreateIdFile \/ WriteIdFile
  BY <1>2 DEF CreateIdFile, WriteIdFile, IdentityStep
<1>3. CASE IdFileFails
  BY <1>3 DEF IdFileFails, IdentityStep, Event
<1>4. CASE ReadIdFails
  <2>1. starts + 1 \in Starts /\ starts <= events /\ events' = events + 1
        /\ events' \in 0..MaxEvents
    BY <1>4 DEF ReadIdFails, Event, Starts
  <2>2. lapsed' \subseteq Starts
    BY <1>4 DEF ReadIdFails, Decodes
  <2>3. AgentTyped'
    BY <1>4, <2>1, <2>2 DEF ReadIdFails
  <2>4. AgentShape'
    <3>1. hash = None /\ conn = None
      BY <1>4 DEF ReadIdFails
    <3>2. starts \in Nat /\ events \in Nat
      OBVIOUS
    <3>3. starts + 1 <= events' + 1
      BY <2>1, <3>2
    <3> QED
      BY <1>4, <2>1, <3>1, <3>3 DEF ReadIdFails
  <2> QED
    BY <2>3, <2>4
<1> QED
  BY <1>1, <1>2, <1>3, <1>4 DEF Boot

LEMMA StopTyped == AgentOK /\ Stop => AgentOK'
<1> SUFFICES ASSUME AgentOK, Stop
             PROVE  AgentOK'
  OBVIOUS
<1>1. next' \in Content
  BY DEF Stop, Nothing, Content, Maybe
<1>2. lapsed' \subseteq Starts
  BY DEF Stop, AgentOK, AgentTyped, AgentShape
<1>3. /\ pc' = "down" /\ uid' = None /\ hash' = None /\ reported' = None
      /\ told' = None /\ conn' = None /\ events' = events + 1
      /\ UNCHANGED <<file, idFile, starts, overlap, returned>>
  BY DEF Stop, Event, Disconnected
<1>4. events \in Nat /\ events + 1 \in 0..MaxEvents
  BY Constants DEF Stop, Event, AgentOK, AgentTyped
<1>5. AgentTyped'
  BY <1>1, <1>2, <1>3, <1>4 DEF AgentOK, AgentTyped, Maybe
<1>6. starts \in Nat /\ starts <= events + 1
  BY DEF AgentOK, AgentTyped, AgentShape, Starts
<1>7. starts' <= events' /\ starts' <= events' + 1
  BY <1>3, <1>4, <1>6
<1>8. AgentShape'
  BY <1>3, <1>7 DEF AgentShape
<1> QED
  BY <1>5, <1>8 DEF AgentOK

LEMMA ReportTyped ==
  AgentOK /\ (Report \/ HashFails \/ UpdateFails \/ Send \/ Connect) => AgentOK'
<1> SUFFICES ASSUME AgentOK,
                    Report \/ HashFails \/ UpdateFails \/ Send \/ Connect
             PROVE  AgentOK'
  OBVIOUS
<1> USE Constants DEF AgentOK, AgentTyped, AgentShape, Maybe
<1>1. CASE Tick \/ HashFails
  <2>1. pc = "up" /\ starts \in Starts
    BY <1>1 DEF Tick, HashFails
  <2>2. next' \in Content
    BY <1>1, <2>1 DEF Tick, HashFails, Content
  <2> QED
    BY <1>1, <2>1, <2>2 DEF Tick, HashFails, ReportStep, Event
<1>2. CASE UpdateEffective
  <2>1. next' \in Content
    BY <1>2 DEF UpdateEffective, Content
  <2> QED
    BY <1>2, <2>1 DEF UpdateEffective, ReportStep
<1>3. CASE UpdateFails
  <2>1. events' \in 0..MaxEvents /\ starts <= events' /\ starts <= events' + 1
    BY <1>3, EventTyped DEF UpdateFails
  <2> QED
    BY <1>3, <2>1 DEF UpdateFails, ReportStep
<1>4. CASE Send
  <2>1. next' \in Content
    BY <1>4 DEF Send, Nothing, Content
  <2> QED
    BY <1>4, <2>1 DEF Send
<1>5. CASE Connect
  <2>1. next' \in Content
    BY <1>5 DEF Connect, Nothing, Content
  <2>2. conn' \in Conns
    BY <1>5 DEF Connect, Free
  <2> QED
    BY <1>5, <2>1, <2>2 DEF Connect
<1> QED
  BY <1>1, <1>2, <1>3, <1>4, <1>5 DEF Report

LEMMA EnvironmentTyped ==
  AgentOK /\ ((\E c \in Configs : Edit(c)) \/ Drop \/ ServerCrash) => AgentOK'
<1> SUFFICES ASSUME AgentOK,
                    (\E c \in Configs : Edit(c)) \/ Drop \/ ServerCrash
             PROVE  AgentOK'
  OBVIOUS
<1> USE Constants DEF AgentOK, AgentTyped, AgentShape, Maybe
<1>1. ASSUME NEW c \in Configs, Edit(c)
      PROVE  AgentOK'
  <2>1. events' \in 0..MaxEvents /\ starts <= events' /\ starts <= events' + 1
    BY <1>1, EventTyped DEF Edit
  <2> QED
    BY <1>1, <2>1 DEF Edit, agentVars
<1>2. CASE Drop
  <2>1. events' \in 0..MaxEvents /\ starts <= events' /\ starts <= events' + 1
    BY <1>2, EventTyped DEF Drop
  <2> QED
    BY <1>2, <2>1 DEF Drop, Disconnected, agentVars
<1>3. CASE ServerCrash
  <2>1. events' \in 0..MaxEvents /\ starts <= events' /\ starts <= events' + 1
    BY <1>3, EventTyped DEF ServerCrash
  <2> QED
    BY <1>3, <2>1, Zenon DEF ServerCrash, agentVars
<1> QED
  BY <1>1, <1>2, <1>3

-----------------------------------------------------------------------------
(* The wire and the server.                                                *)

LEMMA DisconnectedTyped ==
  ASSUME WireTyped, NEW n \in Unread, Disconnected(n)
  PROVE  /\ WireTyped'
         /\ \A k \in Conns : /\ DOMAIN inbox'[k] \subseteq DOMAIN inbox[k]
                             /\ \A i \in DOMAIN inbox'[k] :
                                  inbox'[k][i] = inbox[k][i]
<1> SUFFICES ASSUME NEW k \in Conns
             PROVE  /\ inbox'[k] \in Seq(Message)
                    /\ DOMAIN inbox'[k] \subseteq DOMAIN inbox[k]
                    /\ \A i \in DOMAIN inbox'[k] : inbox'[k][i] = inbox[k][i]
  BY DEF WireTyped, Disconnected
<1>1. inbox[k] \in Seq(Message) /\ Len(inbox[k]) \in Nat
  BY LenProperties DEF WireTyped
<1>2. CASE k = conn
  <2>1. n \in 0..Len(inbox[k])
    BY <1>1, <1>2 DEF Unread
  <2>2. inbox'[k] = SubSeq(inbox[k], 1, n)
    BY <1>2 DEF Disconnected
  <2>3. /\ inbox'[k] \in Seq(Message) /\ Len(inbox'[k]) = n
        /\ \A i \in 1..n : inbox'[k][i] = inbox[k][i]
    BY <1>1, <2>1, <2>2, SubSeqProperties
  <2> QED
    BY <1>1, <2>1, <2>3, LenProperties
<1>3. CASE k # conn
  BY <1>1, <1>3 DEF Disconnected
<1> QED
  BY <1>2, <1>3

\* A message the agent sends carries its identity.
LEMMA SentTyped ==
  ASSUME AgentOK, WireTyped, Send \/ Connect
  PROVE  /\ WireTyped' /\ pc = "up"
         /\ \A k \in Conns : \A i \in DOMAIN inbox'[k] :
              \/ i \in DOMAIN inbox[k] /\ inbox'[k][i] = inbox[k][i]
              \/ inbox'[k][i].uid = uid
<1>1. pc = "up" /\ uid \in Starts /\ file \in Configs /\ next \in Content
  BY DEF AgentOK, AgentTyped, AgentShape, Send, Connect
<1>2. CASE Send
  <2> DEFINE m == [uid |-> uid, snap |-> next.snap, eff |-> next.eff]
  <2>1. m \in Message
    BY <1>1 DEF Message, Content
  <2>2. conn \in Conns
    BY <1>2 DEF Send, AgentOK, AgentTyped, Maybe
  <2>3. inbox[conn] \in Seq(Message) /\ inbox' = [inbox EXCEPT ![conn] = Append(@, m)]
    BY <1>2, <2>2 DEF Send, WireTyped
  <2>4. /\ Append(inbox[conn], m) \in Seq(Message)
        /\ Len(Append(inbox[conn], m)) = Len(inbox[conn]) + 1
        /\ \A i \in 1..Len(inbox[conn]) :
             Append(inbox[conn], m)[i] = inbox[conn][i]
        /\ Append(inbox[conn], m)[Len(inbox[conn]) + 1] = m
    BY <2>1, <2>3, AppendProperties
  <2>5. Len(inbox[conn]) \in Nat
    BY <2>3, LenProperties
  <2>6. DOMAIN Append(inbox[conn], m) = 1..Len(inbox[conn]) + 1
        /\ DOMAIN inbox[conn] = 1..Len(inbox[conn])
    BY <2>3, <2>4, LenProperties
  <2>7. WireTyped'
    BY <2>2, <2>3, <2>4 DEF WireTyped
  <2>8. ASSUME NEW k \in Conns, NEW i \in DOMAIN inbox'[k]
        PROVE  \/ i \in DOMAIN inbox[k] /\ inbox'[k][i] = inbox[k][i]
               \/ inbox'[k][i].uid = uid
    <3>1. CASE k # conn
      BY <3>1, <2>3 DEF WireTyped
    <3>2. CASE k = conn
      <4>1. inbox'[k] = Append(inbox[conn], m)
        BY <3>2, <2>2, <2>3 DEF WireTyped
      <4>2. i \in 1..Len(inbox[conn]) \/ i = Len(inbox[conn]) + 1
        BY <4>1, <2>5, <2>6
      <4> QED
        BY <3>2, <4>1, <4>2, <2>4, <2>6
    <3> QED
      BY <3>1, <3>2
  <2> QED
    BY <1>1, <2>7, <2>8
<1>3. CASE Connect
  <2> DEFINE m == [uid |-> uid, snap |-> next.snap, eff |-> file]
  <2>1. m \in Message
    BY <1>1 DEF Message, Content, Maybe
  <2>2. inbox' = [inbox EXCEPT ![conn'] = <<m>>]
    BY <1>3 DEF Connect
  <2>3. <<m>> \in Seq(Message) /\ DOMAIN <<m>> = {1} /\ <<m>>[1] = m
    BY <2>1
  <2> HIDE DEF m
  <2>4. WireTyped'
    BY <2>2, <2>3 DEF WireTyped
  <2>5. m.uid = uid
    BY DEF m
  <2>6. ASSUME NEW k \in Conns, NEW i \in DOMAIN inbox'[k]
        PROVE  \/ i \in DOMAIN inbox[k] /\ inbox'[k][i] = inbox[k][i]
               \/ inbox'[k][i].uid = uid
    <3>1. CASE k # conn'
      BY <3>1, <2>2 DEF WireTyped
    <3>2. CASE k = conn'
      <4>1. inbox'[k] = <<m>>
        BY <3>2, <2>2 DEF WireTyped
      <4>2. i = 1
        BY <4>1, <2>3
      <4> QED
        BY <4>1, <4>2, <2>3, <2>5
    <3> QED
      BY <3>1, <3>2
  <2> QED
    BY <1>1, <2>4, <2>6
<1> QED
  BY <1>2, <1>3

LEMMA ReadTyped ==
  ASSUME WireTyped, NEW k \in Conns, inbox[k] # << >>,
         inbox' = [inbox EXCEPT ![k] = Tail(@)]
  PROVE  /\ WireTyped' /\ Head(inbox[k]) \in Message
         /\ 1 \in DOMAIN inbox[k] /\ Head(inbox[k]) = inbox[k][1]
         /\ \A j \in Conns : \A i \in DOMAIN inbox'[j] :
              \E n \in DOMAIN inbox[j] : inbox'[j][i] = inbox[j][n]
<1>1. inbox[k] \in Seq(Message)
  BY DEF WireTyped
<1>2. /\ Head(inbox[k]) \in Message /\ Tail(inbox[k]) \in Seq(Message)
      /\ Len(Tail(inbox[k])) = Len(inbox[k]) - 1 /\ Head(inbox[k]) = inbox[k][1]
      /\ \A i \in 1..Len(Tail(inbox[k])) : Tail(inbox[k])[i] = inbox[k][i + 1]
  BY <1>1, HeadTailProperties
<1>3. /\ Len(inbox[k]) \in Nat \ {0} /\ DOMAIN inbox[k] = 1..Len(inbox[k])
      /\ DOMAIN Tail(inbox[k]) = 1..Len(Tail(inbox[k]))
  BY <1>1, <1>2, LenProperties, EmptySeq
<1>4. WireTyped'
  BY <1>2 DEF WireTyped
<1>5. ASSUME NEW j \in Conns, NEW i \in DOMAIN inbox'[j]
      PROVE  \E n \in DOMAIN inbox[j] : inbox'[j][i] = inbox[j][n]
  <2>1. CASE j # k
    BY <2>1 DEF WireTyped
  <2>2. CASE j = k
    <3>1. inbox'[j] = Tail(inbox[k])
      BY <2>2 DEF WireTyped
    <3>2. i \in 1..Len(Tail(inbox[k]))
      BY <3>1, <1>3
    <3>3. inbox'[j][i] = inbox[k][i + 1]
      BY <3>1, <3>2, <1>2
    <3>4. i + 1 \in DOMAIN inbox[k]
      BY <3>2, <1>2, <1>3
    <3> QED
      BY <2>2, <3>3, <3>4
  <2> QED
    BY <2>1, <2>2
<1> QED
  BY <1>2, <1>3, <1>4, <1>5

\* A step that gives handler k the value h and changes one row.
LEMMA ServerStepTyped ==
  ASSUME ServerOK, NEW k \in Conns, NEW h \in Handler,
         h.pc # "idle" => h.msg \in Message,
         h.pc = "write" => h.msg.snap \in Starts,
         h.pc = "eff" => h.msg.eff \in Configs,
         h.history \in Histories,
         HandlerStep(k, h),
         NEW u \in Starts, NEW r \in Row, r.history \in Histories,
         row' = [row EXCEPT ![u] = r],
         counted' \in [Starts -> SUBSET Starts]
  PROVE  ServerOK'
<1>1. handler' = [handler EXCEPT ![k] = h]
  BY DEF HandlerStep
<1>2. HandlerShape'
  BY <1>1 DEF ServerOK, ServerTyped, HandlerShape
<1>3. handler' \in [Conns -> Handler] /\ row' \in [Starts -> Row]
  BY <1>1 DEF ServerOK, ServerTyped
<1>4. \A v \in Starts : row'[v].history \in Histories
  BY DEF ServerOK, ServerTyped
<1> QED
  BY <1>2, <1>3, <1>4 DEF ServerOK, ServerTyped

LEMMA ReceiveTyped ==
  ASSUME WireTyped, ServerOK, NEW k \in Conns, Receive(k)
  PROVE  WireTyped' /\ ServerOK'
<1> DEFINE m == Head(inbox[k])
           r == row[m.uid]
           h == IF m.snap \in {None, r.last} THEN After(m)
                ELSE [pc |-> "write", msg |-> m, last |-> r.last,
                      history |-> r.history]
<1>1. WireTyped' /\ m \in Message
  BY ReadTyped, Zenon DEF Receive
<1>2. m.uid \in Starts /\ m.snap \in Maybe(Starts)
  BY <1>1 DEF Message
<1>3. r \in Row /\ r.history \in Histories
  BY <1>2 DEF ServerOK, ServerTyped
<1>4. HandlerStep(k, h) /\ row' = [row EXCEPT ![m.uid].known = TRUE]
  BY Zenon DEF Receive
<1>5. /\ h \in Handler /\ h.history \in Histories
      /\ h.pc # "idle" => h.msg \in Message
      /\ h.pc = "write" => h.msg.snap \in Starts
      /\ h.pc = "eff" => h.msg.eff \in Configs
  <2>1. CASE m.snap \in {None, r.last}
    BY <2>1, <1>1, AfterTyped, EmptyHistory
  <2>2. CASE m.snap \notin {None, r.last}
    <3> DEFINE w == [pc |-> "write", msg |-> m, last |-> r.last,
                     history |-> r.history]
    <3>1. h = w /\ m.snap \in Starts
      BY <2>2, <1>2 DEF Maybe
    <3>2. w \in Handler
      BY <1>1, <1>3 DEF Handler, Row, Maybe
    <3> QED
      BY <3>1, <3>2, <1>1, <1>3
  <2> QED
    BY <2>1, <2>2, Zenon
<1> DEFINE q == [r EXCEPT !.known = TRUE]
<1>6. q \in Row /\ q.history \in Histories
  BY <1>3, RowTouched DEF Row
<1>7. row' = [row EXCEPT ![m.uid] = q]
  BY <1>4
<1>8. counted' \in [Starts -> SUBSET Starts]
  BY Zenon DEF Receive, ServerOK, ServerTyped
<1> HIDE DEF h, q, m, r
<1> QED
  BY <1>1, <1>2, <1>4, <1>5, <1>6, <1>7, <1>8, ServerStepTyped

LEMMA WriteTyped ==
  ASSUME ServerOK, NEW k \in Conns, WriteStartedAt(k)
  PROVE  ServerOK'
<1> DEFINE h == handler[k]
           m == h.msg
           r == row[m.uid]
<1>1. h \in Handler /\ m \in Message /\ m.snap \in Starts /\ h.history \in Histories
  BY DEF WriteStartedAt, ServerOK, ServerTyped, HandlerShape
<1>2. m.uid \in Starts
  BY <1>1 DEF Message
<1>3. r \in Row
  BY <1>2 DEF ServerOK, ServerTyped
<1>4. NewHistory(h) \in Histories
  BY <1>1, NewHistoryTyped
<1> DEFINE q == [r EXCEPT !.known = TRUE, !.last = m.snap, !.history = NewHistory(h)]
<1>5. q \in Row /\ q.history \in Histories
  <2>1. q \in Row
    BY <1>1, <1>3, <1>4, RowCounted
  <2>2. q.history = NewHistory(h)
    BY <1>3 DEF Row
  <2> QED
    BY <2>1, <2>2, <1>4
<1>6. row' = [row EXCEPT ![m.uid] = q]
  BY <1>2, <1>3, Zenon DEF WriteStartedAt, ServerOK, ServerTyped, Row
<1>7. counted' \in [Starts -> SUBSET Starts]
  BY <1>1, <1>2 DEF WriteStartedAt, ServerOK, ServerTyped
<1>8. HandlerStep(k, After(m))
  BY Zenon DEF WriteStartedAt
<1>9. After(m).history \in Histories
  BY <1>1, AfterTyped, EmptyHistory
<1> HIDE DEF q, m, r, h
<1> QED
  BY <1>1, <1>2, <1>5, <1>6, <1>7, <1>8, <1>9, AfterTyped, ServerStepTyped

LEMMA EffectiveTyped ==
  ASSUME ServerOK, NEW k \in Conns, SetEffective(k)
  PROVE  ServerOK'
<1> DEFINE m == handler[k].msg
           r == row[m.uid]
           q == [r EXCEPT !.known = TRUE, !.eff = m.eff]
<1>1. m \in Message /\ m.eff \in Configs
  BY DEF SetEffective, ServerOK, HandlerShape
<1>2. m.uid \in Starts
  BY <1>1 DEF Message
<1>3. r \in Row /\ r.history \in Histories
  BY <1>2 DEF ServerOK, ServerTyped
<1>4. q \in Row /\ q.history \in Histories
  BY <1>1, <1>3, RowTold DEF Row
<1>5. row' = [row EXCEPT ![m.uid] = q]
  BY <1>2, <1>3, Zenon DEF SetEffective, ServerOK, ServerTyped, Row
<1>6. Idle \in Handler /\ Idle.pc = "idle" /\ Idle.history \in Histories
  BY EmptySeq, EmptyHistory DEF Idle, Handler, Maybe
<1>7. HandlerStep(k, Idle) /\ counted' = counted
  BY DEF SetEffective
<1> HIDE DEF q, m, r
<1> QED
  BY <1>2, <1>4, <1>5, <1>6, <1>7, ServerStepTyped DEF ServerOK, ServerTyped

LEMMA CrashTyped ==
  ASSUME WireTyped, ServerOK, ServerCrash
  PROVE  WireTyped' /\ ServerOK'
<1>1. Idle \in Handler /\ Idle.pc = "idle" /\ Idle.history \in Histories
  BY EmptySeq, EmptyHistory DEF Idle, Handler, Maybe
<1>2. WireTyped'
  BY EmptySeq DEF ServerCrash, WireTyped
<1>3. handler' = [k \in Conns |-> Idle] /\ row' = row /\ counted' = counted
  BY DEF ServerCrash
<1>4. HandlerShape'
  BY <1>1, <1>3 DEF HandlerShape
<1>5. ServerTyped'
  BY <1>1, <1>3 DEF ServerOK, ServerTyped
<1> QED
  BY <1>2, <1>4, <1>5 DEF ServerOK

\* What a step is, by who takes it.
AgentLocal ==
  \/ Boot \/ ReadIdFails \/ IdFileFails \/ (\E c \in Configs : Edit(c))
  \/ Report \/ HashFails \/ UpdateFails
AgentStep == AgentLocal \/ Stop \/ Send \/ Connect \/ Drop

LEMMA NextCases ==
  Next => AgentStep \/ (\E k \in Conns : Handle(k)) \/ ServerCrash
BY DEF Next, AgentStep, AgentLocal

LEMMA AgentStepTyped == AgentOK /\ AgentStep => AgentOK'
BY BootTyped, StopTyped, ReportTyped, EnvironmentTyped DEF AgentStep, AgentLocal

LEMMA AgentLeavesServer ==
  /\ AgentStep => UNCHANGED serverVars
  /\ AgentLocal => UNCHANGED inbox
  /\ Stop \/ Drop => \E n \in Unread : Disconnected(n)
<1>1. AgentLocal => UNCHANGED <<serverVars, inbox>>
  BY DEF AgentLocal, Boot, Start, CreateIdFile, WriteIdFile, ReadIdFails, IdFileFails,
         IdentityStep, Edit, Report, Tick, UpdateEffective, HashFails,
         UpdateFails, ReportStep
<1>2. Stop \/ Drop =>
        UNCHANGED serverVars /\ \E n \in Unread : Disconnected(n)
  BY DEF Stop, Drop
<1>3. Send \/ Connect => UNCHANGED serverVars
  BY DEF Send, Connect
<1> QED
  BY <1>1, <1>2, <1>3 DEF AgentStep

LEMMA ServerLeavesAgent ==
  ASSUME NEW k \in Conns, Handle(k)
  PROVE  UNCHANGED <<file, agentVars, conn, events, lapsed, overlap, returned>>
BY Zenon DEF Handle, Receive, WriteStartedAt, SetEffective, HandlerStep

LEMMA TypedStep == Typed /\ [Next]_vars => Typed'
<1> SUFFICES ASSUME Typed, [Next]_vars
             PROVE  Typed'
  OBVIOUS
<1>0. AgentOK /\ WireTyped /\ ServerOK
  BY DEF Typed
<1>1. CASE AgentStep
  <2>1. AgentOK'
    BY <1>0, <1>1, AgentStepTyped
  <2>2. ServerOK'
    BY <1>0, <1>1, AgentLeavesServer
       DEF serverVars, ServerOK, ServerTyped, HandlerShape
  <2>3. WireTyped'
    <3>1. CASE AgentLocal
      BY <1>0, <3>1, AgentLeavesServer DEF WireTyped
    <3>2. CASE Stop \/ Drop
      BY <1>0, <3>2, AgentLeavesServer, DisconnectedTyped
    <3>3. CASE Send \/ Connect
      BY <1>0, <3>3, SentTyped
    <3> QED
      BY <1>1, <3>1, <3>2, <3>3 DEF AgentStep
  <2> QED
    BY <2>1, <2>2, <2>3 DEF Typed
<1>2. ASSUME NEW k \in Conns, Handle(k)
      PROVE  Typed'
  <2>1. AgentOK'
    BY <1>0, <1>2, ServerLeavesAgent
       DEF agentVars, AgentOK, AgentTyped, AgentShape
  <2>2. CASE Receive(k)
    BY <1>0, <2>1, <2>2, ReceiveTyped DEF Typed
  <2>3. CASE WriteStartedAt(k)
    <3>1. ServerOK'
      BY <1>0, <2>3, WriteTyped
    <3>2. WireTyped'
      BY <1>0, <2>3, Zenon DEF WriteStartedAt, WireTyped
    <3> QED
      BY <2>1, <3>1, <3>2 DEF Typed
  <2>4. CASE SetEffective(k)
    <3>1. ServerOK'
      BY <1>0, <2>4, EffectiveTyped
    <3>2. WireTyped'
      BY <1>0, <2>4 DEF SetEffective, WireTyped
    <3> QED
      BY <2>1, <3>1, <3>2 DEF Typed
  <2> QED
    BY <1>2, <2>2, <2>3, <2>4 DEF Handle
<1>3. CASE ServerCrash
  BY <1>0, <1>3, EnvironmentTyped, CrashTyped DEF Typed
<1>4. CASE UNCHANGED vars
  BY <1>0, <1>4 DEF vars, agentVars, serverVars, Typed, AgentOK, AgentTyped,
                    AgentShape, WireTyped, ServerOK, ServerTyped, HandlerShape
<1> QED
  BY <1>1, <1>2, <1>3, <1>4, NextCases

\* Whatever is lost, late or restarted, every variable of agent, connections
\* and server keeps its shape; in particular the restart history never grows
\* past maxRestartHistory, although what recordStartedAt appends to may have
\* been read before another goroutine wrote the row.
THEOREM TypeCorrect == Spec => []TypeOK
<1>1. Spec => []Typed
  BY TypedInit, TypedStep, PTL DEF Spec
<1> QED
  BY <1>1, TypedTypeOK, PTL

-----------------------------------------------------------------------------
(* The identity.                                                           *)

\* The identity is in the agent's file, or was not written there in full, or
\* could not be read back.
Enrolled(u) == idFile = u \/ u \in lapsed

\* The file is replaced only while it does not decode or could not be read, ...
Drawing ==
  /\ pc = "create" => idFile \notin Starts \/ idFile \in lapsed
  /\ pc = "write" => idFile = Short
  /\ pc = "up" => Enrolled(uid)

\* ... and what is on its way to a row carries an enrolled identity.
WireEnrolled ==
  \A k \in Conns : \A i \in DOMAIN inbox[k] : Enrolled(inbox[k][i].uid)
HandlersEnrolled ==
  \A k \in Conns : handler[k].pc # "idle" => Enrolled(handler[k].msg.uid)

IdentityInv == Drawing /\ WireEnrolled /\ HandlersEnrolled /\ EnrolsOnce

LEMMA IdentityInit == Init => IdentityInv
<1> SUFFICES ASSUME Init
             PROVE  IdentityInv
  OBVIOUS
<1>1. Drawing
  BY DEF Init, Drawing
<1>2. WireEnrolled
  <2>1. \A k \in Conns : inbox[k] = << >>
    BY DEF Init
  <2> QED
    BY <2>1 DEF WireEnrolled
<1>3. HandlersEnrolled
  BY DEF Init, HandlersEnrolled, Idle
<1>4. EnrolsOnce
  BY DEF Init, EnrolsOnce, NoRow
<1> QED
  BY <1>1, <1>2, <1>3, <1>4 DEF IdentityInv

\* No step of the agent takes an identity out of the file once it is there.
LEMMA StaysEnrolled ==
  ASSUME AgentOK, Drawing, AgentStep
  PROVE  Drawing' /\ \A u \in Starts : Enrolled(u) => Enrolled(u)'
<1> USE Constants DEF Enrolled, Drawing
<1>1. CASE Boot \/ ReadIdFails \/ IdFileFails
  BY <1>1 DEF Boot, Start, Decodes, CreateIdFile, WriteIdFile, ReadIdFails, IdFileFails,
              IdentityStep
<1>2. CASE Stop
  BY <1>2 DEF Stop
<1>3. CASE (\E c \in Configs : Edit(c)) \/ Drop
  BY <1>3 DEF Edit, Drop, agentVars
<1>4. CASE Report \/ HashFails \/ UpdateFails
  BY <1>4 DEF Report, Tick, UpdateEffective, HashFails, UpdateFails, ReportStep
<1>5. CASE Send \/ Connect
  BY <1>5 DEF Send, Connect
<1> QED
  BY <1>1, <1>2, <1>3, <1>4, <1>5 DEF AgentStep, AgentLocal

LEMMA AgentStepIdentity ==
  ASSUME Typed, IdentityInv, AgentStep
  PROVE  IdentityInv'
<1>1. AgentOK /\ WireTyped /\ ServerOK /\ UNCHANGED serverVars
  BY AgentLeavesServer DEF Typed
<1>2. Drawing' /\ \A u \in Starts : Enrolled(u) => Enrolled(u)'
  BY <1>1, StaysEnrolled DEF IdentityInv
<1>3. EnrolsOnce'
  BY <1>1, <1>2 DEF IdentityInv, EnrolsOnce, Enrolled, serverVars
<1>4. HandlersEnrolled'
  <2> SUFFICES ASSUME NEW k \in Conns, handler[k].pc # "idle"
               PROVE  Enrolled(handler[k].msg.uid)'
    BY <1>1 DEF HandlersEnrolled, serverVars
  <2>1. handler[k].msg.uid \in Starts
    BY <1>1 DEF ServerOK, HandlerShape, Message
  <2> QED
    BY <1>1, <1>2, <2>1
       DEF IdentityInv, HandlersEnrolled, Enrolled, serverVars
<1>5. WireEnrolled'
  <2> SUFFICES ASSUME NEW k \in Conns, NEW i \in DOMAIN inbox'[k]
               PROVE  (idFile = inbox[k][i].uid \/ inbox[k][i].uid \in lapsed)'
    BY DEF WireEnrolled, Enrolled
  <2>1. CASE i \in DOMAIN inbox[k] /\ inbox'[k][i] = inbox[k][i]
    <3>1. inbox[k][i].uid \in Starts
      <4>1. inbox[k] \in Seq(Message)
        BY <1>1 DEF WireTyped
      <4>2. inbox[k][i] \in Message
        BY <4>1, <2>1, ElementOfSeq, LenProperties
      <4> QED
        BY <4>2 DEF Message
    <3>2. Enrolled(inbox[k][i].uid)
      BY <2>1 DEF IdentityInv, WireEnrolled
    <3> QED
      BY <1>2, <2>1, <3>1, <3>2 DEF Enrolled
  <2>2. CASE Send \/ Connect
    <3>1. \/ i \in DOMAIN inbox[k] /\ inbox'[k][i] = inbox[k][i]
          \/ inbox'[k][i].uid = uid
      BY <1>1, <2>2, SentTyped
    <3>2. pc = "up" /\ uid \in Starts /\ Enrolled(uid)
      BY <1>1, <2>2, SentTyped
         DEF IdentityInv, Drawing, AgentOK, AgentShape
    <3>3. (idFile = uid \/ uid \in lapsed) /\ idFile' = idFile /\ lapsed' = lapsed
      BY <3>2, <2>2 DEF Enrolled, Send, Connect
    <3> QED
      BY <2>1, <3>1, <3>3
  <2>3. CASE Stop \/ Drop
    BY <1>1, <2>1, <2>3, AgentLeavesServer, DisconnectedTyped
  <2>4. CASE AgentLocal
    BY <2>1, <2>4, AgentLeavesServer
  <2> QED
    BY <2>2, <2>3, <2>4 DEF AgentStep
<1> QED
  BY <1>2, <1>3, <1>4, <1>5 DEF IdentityInv

\* A goroutine's step: it touches the row of the message it handles.
LEMMA HandleIdentity ==
  ASSUME Typed, IdentityInv, NEW k \in Conns, Handle(k)
  PROVE  IdentityInv'
<1>1. /\ AgentOK /\ WireTyped /\ ServerOK
      /\ \A u : Enrolled(u)' <=> Enrolled(u)
  BY ServerLeavesAgent DEF Typed, Enrolled, agentVars
<1>2. Drawing'
  BY ServerLeavesAgent DEF IdentityInv, Drawing, Enrolled, agentVars
<1>3. ASSUME NEW m \in Message, NEW h, Enrolled(m.uid),
             h.pc # "idle" => h.msg = m,
             HandlerStep(k, h),
             \A u \in Starts : row'[u].known => row[u].known \/ u = m.uid
      PROVE  HandlersEnrolled' /\ EnrolsOnce'
  <2>1. handler' = [handler EXCEPT ![k] = h]
    BY <1>3 DEF HandlerStep
  <2>2. handler'[k] = h /\ \A j \in Conns \ {k} : handler'[j] = handler[j]
    BY <1>1, <2>1 DEF ServerOK, ServerTyped
  <2>3. UNCHANGED <<idFile, lapsed>>
    BY <1>3 DEF HandlerStep, agentVars
  <2>4. HandlersEnrolled'
    BY <1>3, <2>2, <2>3 DEF IdentityInv, HandlersEnrolled, Enrolled
  <2>5. EnrolsOnce'
    BY <1>3, <2>3 DEF IdentityInv, EnrolsOnce, Enrolled
  <2> QED
    BY <2>4, <2>5
<1>4. CASE Receive(k)
  <2> DEFINE m == Head(inbox[k])
             h == IF m.snap \in {None, row[m.uid].last} THEN After(m)
                  ELSE [pc |-> "write", msg |-> m, last |-> row[m.uid].last,
                        history |-> row[m.uid].history]
  <2>1. /\ m \in Message /\ 1 \in DOMAIN inbox[k] /\ m = inbox[k][1]
        /\ \A j \in Conns : \A i \in DOMAIN inbox'[j] :
             \E n \in DOMAIN inbox[j] : inbox'[j][i] = inbox[j][n]
    BY <1>1, <1>4, ReadTyped, Zenon DEF Receive
  <2>2. Enrolled(m.uid)
    BY <2>1 DEF IdentityInv, WireEnrolled
  <2>3. h.pc # "idle" => h.msg = m
    BY <2>1, AfterTyped
  <2>4. HandlerStep(k, h) /\ row' = [row EXCEPT ![m.uid].known = TRUE]
    BY <1>4, Zenon DEF Receive
  <2>5. \A u \in Starts : row'[u].known => row[u].known \/ u = m.uid
    BY <1>1, <2>4 DEF ServerOK, ServerTyped
  <2> HIDE DEF h, m
  <2>6. HandlersEnrolled' /\ EnrolsOnce'
    BY <1>3, <2>1, <2>2, <2>3, <2>4, <2>5
  <2>7. WireEnrolled'
    <3>1. idFile' = idFile /\ lapsed' = lapsed
      BY <2>4 DEF HandlerStep, agentVars
    <3> QED
      BY <2>1, <3>1 DEF IdentityInv, WireEnrolled, Enrolled
  <2> QED
    BY <1>2, <2>6, <2>7 DEF IdentityInv
<1>5. CASE WriteStartedAt(k) \/ SetEffective(k)
  <2> DEFINE m == handler[k].msg
  <2>1. m \in Message /\ Enrolled(m.uid)
    BY <1>1, <1>5, Zenon DEF WriteStartedAt, SetEffective, ServerOK, HandlerShape,
                      IdentityInv, HandlersEnrolled
  <2>2. m.uid \in Starts
    BY <2>1 DEF Message
  <2>3. \A u \in Starts : row'[u].known => row[u].known \/ u = m.uid
    BY <1>1, <1>5, <2>2, Zenon
    DEF WriteStartedAt, SetEffective, ServerOK, ServerTyped
  <2>4. HandlersEnrolled' /\ EnrolsOnce'
    <3>1. CASE WriteStartedAt(k)
      <4>1. HandlerStep(k, After(m)) /\ (After(m).pc # "idle" => After(m).msg = m)
        BY <3>1, <2>1, AfterTyped, Zenon DEF WriteStartedAt
      <4> QED
        BY <4>1, <1>3, <2>1, <2>3
    <3>2. CASE SetEffective(k)
      <4>1. HandlerStep(k, Idle) /\ (Idle.pc # "idle" => Idle.msg = m)
        BY <3>2 DEF SetEffective, Idle
      <4> QED
        BY <4>1, <1>3, <2>1, <2>3
    <3> QED
      BY <1>5, <3>1, <3>2
  <2>5. WireEnrolled'
    <3>1. inbox' = inbox /\ idFile' = idFile /\ lapsed' = lapsed
      BY <1>5, Zenon DEF WriteStartedAt, SetEffective, HandlerStep, agentVars
    <3> QED
      BY <3>1 DEF IdentityInv, WireEnrolled, Enrolled
  <2> QED
    BY <1>2, <2>4, <2>5 DEF IdentityInv
<1> QED
  BY <1>4, <1>5 DEF Handle

LEMMA IdentityStays == Typed /\ IdentityInv /\ [Next]_vars => IdentityInv'
<1> SUFFICES ASSUME Typed, IdentityInv, [Next]_vars
             PROVE  IdentityInv'
  OBVIOUS
<1>1. CASE ServerCrash
  <2>1. /\ \A k \in Conns : inbox'[k] = << >> /\ handler'[k] = Idle
        /\ UNCHANGED <<idFile, pc, uid, row, lapsed>>
    BY <1>1 DEF ServerCrash, agentVars
  <2> QED
    BY <2>1 DEF IdentityInv, Drawing, Enrolled, WireEnrolled,
                HandlersEnrolled, EnrolsOnce, Idle
<1>2. CASE UNCHANGED vars
  BY <1>2 DEF vars, agentVars, serverVars, IdentityInv, Drawing, Enrolled,
              WireEnrolled, HandlersEnrolled, EnrolsOnce
<1> QED
  BY <1>1, <1>2, AgentStepIdentity, HandleIdentity, NextCases

\* "a restart reconnects as the same agent instead of enrolling as a new one
\* every time" (loadOrCreateInstanceUID): however often the process ends, and
\* wherever it does while the file is created and written, an identity that
\* has a row is the one in the file, or its process could not write it in full,
\* or a later process could not read it.
THEOREM IdentityKept == Spec => []EnrolsOnce
<1>1. Spec => []Typed
  BY TypedInit, TypedStep, PTL DEF Spec
<1>2. Spec => []IdentityInv
  BY <1>1, IdentityInit, IdentityStays, PTL DEF Spec
<1>3. IdentityInv => EnrolsOnce
  BY DEF IdentityInv
<1> QED
  BY <1>2, <1>3, PTL

-----------------------------------------------------------------------------
(* The restart history.  While no connections overlap, one connection at a *)
(* time is busy and what is on its way comes in order.                     *)

\* Messages of connection k with a snapshot.
Sent(k) == {i \in DOMAIN inbox[k] : inbox[k][i].snap # None}

\* No start is recorded that is later than n.
Past(n) == \A u \in Starts : \A s \in counted[u] : s <= n

\* The client has a snapshot of the process that is up, if any.
Ticked == next.snap # None => pc = "up" /\ next.snap = starts

Alone ==
  \A k \in Conns :
    Busy(k) => conn \in {None, k} /\ \A j \in Conns : Busy(j) => j = k

WireOrdered ==
  \A k \in Conns : \A i \in Sent(k) :
    /\ inbox[k][i].snap <= starts /\ Past(inbox[k][i].snap)
    /\ \A j \in Sent(k) : i < j => inbox[k][i].snap <= inbox[k][j].snap

\* What a goroutine has read is what the row still holds, and what it is about
\* to write is no older than what is recorded, no later than what comes next.
HandlersOrdered ==
  \A k \in Conns : handler[k].pc = "write" =>
    /\ handler[k].last = row[handler[k].msg.uid].last
    /\ handler[k].history = row[handler[k].msg.uid].history
    /\ handler[k].msg.snap # handler[k].last
    /\ handler[k].msg.snap <= starts /\ Past(handler[k].msg.snap)
    /\ \A i \in Sent(k) : handler[k].msg.snap <= inbox[k][i].snap

\* A row's last_started_at is the latest start recorded for it.
RowOrdered(u) ==
  /\ row[u].last = None => counted[u] = {} /\ row[u].history = << >>
  /\ row[u].last # None => /\ row[u].last \in counted[u]
                           /\ \A s \in counted[u] : s <= row[u].last
  /\ KeepsRestarts(row[u].history, counted[u])

RowsOrdered == Past(starts) /\ \A u \in Starts : RowOrdered(u)

InOrder == Alone /\ WireOrdered /\ HandlersOrdered /\ RowsOrdered
OrderInv == Ticked /\ (overlap \/ InOrder)

\* A later start joins a history that keeps the earlier ones.
LEMMA OneMoreStart ==
  ASSUME NEW h \in Histories, NEW C \in SUBSET Starts, NEW l \in C,
         NEW s \in Starts, \A c \in C : c < s, KeepsRestarts(h, C)
  PROVE  KeepsRestarts(LastOnes(Append(h, s)), C \union {s})
<1> DEFINE a == Append(h, s)
           n == Len(h)
           t == LastOnes(a)
           Before == {x \in C : \E first \in C : first < x}
           Restarts == {x \in C \union {s} : \E first \in C \union {s} : first < x}
<1>1. /\ h \in Seq(Starts) /\ n \in Nat /\ n <= maxRestartHistory
      /\ maxRestartHistory \in Nat \ {0} /\ Starts \subseteq Nat
      /\ DOMAIN h = 1..n
  BY Constants, LenProperties DEF Histories
<1>2. /\ a \in Seq(Starts) /\ Len(a) = n + 1 /\ DOMAIN a = 1..n + 1
      /\ \A i \in 1..n : a[i] = h[i]
      /\ a[n + 1] = s
  BY <1>1, AppendProperties, LenProperties
<1>3. /\ \A i, j \in 1..n : i < j => h[i] < h[j]
      /\ \A i \in 1..n : h[i] \in Before
      /\ \A x \in Before : (\A i \in 1..n : h[i] # x) =>
           n = maxRestartHistory /\ x < h[1]
  BY <1>1 DEF KeepsRestarts, ToSet
<1>0. n \in Nat
  BY <1>1
<1>4. Restarts = Before \union {s}
  <2>1. \A x, y \in C : x < y => x \in Nat /\ y \in Nat
    BY <1>1
  <2>2. \A x \in C : ~ s < x
    BY <1>1
  <2>3. ~ s < s /\ l < s
    BY <1>1
  <2> QED
    BY <2>2, <2>3
<1>11. \A x \in Before : x \in Nat /\ x < s
  BY <1>1
<1> HIDE DEF Before, Restarts
<1>5. /\ \A i \in 1..n + 1 : a[i] \in Before \union {s}
      /\ \A i, j \in 1..n + 1 : i < j => a[i] < a[j]
  <2>1. ASSUME NEW i \in 1..n + 1
        PROVE  a[i] \in Before \union {s} /\ (i # n + 1 => a[i] = h[i] /\ a[i] < s)
    <3> HIDE DEF a, n
    <3>1. i \in 1..n \/ i = n + 1
      BY <1>0
    <3> QED
      BY <3>1, <1>2, <1>3, <1>11
  <2>2. ASSUME NEW i \in 1..n + 1, NEW j \in 1..n + 1, i < j
        PROVE  a[i] < a[j]
    <3>1. i \in 1..n
      BY <1>1, <2>2
    <3>2. CASE j = n + 1
      BY <1>1, <1>2, <2>1, <3>1, <3>2
    <3>3. CASE j # n + 1
      <4>1. j \in 1..n
        BY <1>1, <3>3
      <4> QED
        BY <1>2, <1>3, <2>2, <3>1, <4>1
    <3> QED
      BY <3>2, <3>3
  <2> QED
    BY <2>1, <2>2
<1> SUFFICES KeepsRestarts(t, C \union {s})
  OBVIOUS
<1> HIDE DEF a, n, t
\* It is enough to look at what the new history is.
<1>6. ASSUME NEW d \in Nat, t \in Seq(Starts), Len(t) = n + 1 - d,
             \A i \in 1..n + 1 - d : t[i] = a[i + d],
             d = 0 => n < maxRestartHistory,
             d # 0 => d = 1 /\ n = maxRestartHistory
      PROVE  KeepsRestarts(t, C \union {s})
  <2>1. DOMAIN t = 1..n + 1 - d
    BY <1>6, LenProperties
  <2>5. \A i \in DOMAIN t : i \in Nat /\ i + d \in 1..n + 1 /\ t[i] = a[i + d]
    BY <1>0, <1>6, <2>1
  <2>2. \A i, j \in DOMAIN t : i < j => t[i] < t[j]
    <3> SUFFICES ASSUME NEW i \in DOMAIN t, NEW j \in DOMAIN t, i < j
                 PROVE  t[i] < t[j]
      OBVIOUS
    <3>1. i + d < j + d
      BY <2>5
    <3> QED
      BY <1>5, <2>5, <3>1
  <2>3. ToSet(t) \subseteq Restarts
    <3> SUFFICES ASSUME NEW i \in DOMAIN t
                 PROVE  t[i] \in Restarts
      BY DEF ToSet
    <3> QED
      BY <1>4, <1>5, <2>5
  <2>4. ASSUME NEW x \in Restarts, x \notin ToSet(t)
        PROVE  Len(t) = maxRestartHistory /\ x < t[1]
    <3>1. \A i \in 1..n + 1 - d : a[i + d] # x
      BY <1>6, <2>1, <2>4 DEF ToSet
    <3>2. x # s /\ x \in Before
      <4>1. n + 1 - d \in 1..n + 1 - d /\ n + 1 - d + d = n + 1
        <5>1. n + 1 - d \in Nat \ {0}
          BY <1>1, <1>6
        <5> QED
          BY <1>0, <5>1
      <4> QED
        BY <1>2, <1>4, <3>1, <4>1
    <3>3. CASE d = 0
      <4>1. \A i \in 1..n : h[i] # x
        BY <1>1, <1>2, <3>1, <3>3
      <4> QED
        BY <1>1, <1>3, <1>6, <3>2, <3>3, <4>1
    <3>4. CASE d = 1
      <4>1. /\ n = maxRestartHistory /\ Len(t) = n /\ 1 \in 1..n + 1 - d
            /\ t[1] = a[2] /\ 1 \in 1..n + 1 /\ 2 \in 1..n + 1 /\ 1 \in 1..n
        BY <1>1, <1>6, <3>4
      <4>2. a[1] < a[2] /\ a[1] = h[1]
        BY <1>2, <1>5, <4>1
      <4>3. \A i \in 2..n : h[i] # x
        <5> SUFFICES ASSUME NEW i \in 2..n
                     PROVE  h[i] # x
          OBVIOUS
        <5>1. i - 1 \in 1..n + 1 - d /\ i - 1 + d = i /\ i \in 1..n
          BY <1>1, <3>4
        <5> QED
          BY <1>2, <3>1, <5>1
      <4>4. x = h[1] \/ x < h[1]
        <5>1. \A i \in 1..n : i = 1 \/ i \in 2..n
          BY <1>1
        <5> QED
          BY <1>3, <3>2, <4>3, <5>1
      <4>5. x \in Nat /\ h[1] \in Nat /\ a[2] \in Nat
        BY <1>1, <1>2, <1>3, <1>5, <3>2, <4>1 DEF Before
      <4> QED
        BY <4>1, <4>2, <4>4, <4>5
    <3> QED
      BY <1>6, <3>3, <3>4
  <2> QED
    BY <2>2, <2>3, <2>4 DEF KeepsRestarts, Restarts
<1>7. CASE n < maxRestartHistory
  <2>1. t = a
    BY <1>1, <1>2, <1>7 DEF t, LastOnes
  <2>2. \A i \in 1..n + 1 - 0 : t[i] = a[i + 0]
    BY <1>1, <2>1
  <2>3. Len(t) = n + 1 - 0 /\ t \in Seq(Starts)
    BY <1>1, <1>2, <2>1
  <2> QED
    BY <1>0, <1>6, <1>7, <2>2, <2>3
<1>8. CASE n = maxRestartHistory
  <2>1. t = SubSeq(a, 2, n + 1)
    BY <1>1, <1>2, <1>8 DEF t, LastOnes
  <2>2. 2 \in 1..n + 1 /\ n + 1 \in 1..Len(a)
    BY <1>1, <1>2, <1>8
  <2>3. /\ t \in Seq(Starts) /\ Len(t) = n + 1 - 2 + 1
        /\ \A i \in 1..n + 1 - 2 + 1 : t[i] = a[2 + i - 1]
    BY <1>1, <1>2, <1>8, <2>1, <2>2, SubSeqProperties
  <2>4. Len(t) = n + 1 - 1 /\ \A i \in 1..n + 1 - 1 : t[i] = a[i + 1]
    BY <1>1, <2>3
  <2> QED
    <3>1. 1 \in Nat /\ 1 # 0
      OBVIOUS
    <3> QED
      BY <1>6, <1>8, <2>3, <2>4, <3>1, Zenon
<1> QED
  BY <1>1, <1>7, <1>8

\* The first start is no restart.
LEMMA FirstStart ==
  ASSUME NEW s \in Starts
  PROVE  KeepsRestarts(<< >>, {s})
<1>1. s \in Nat /\ DOMAIN << >> = {}
  BY Constants
<1> QED
  BY <1>1 DEF KeepsRestarts, ToSet

LEMMA SentNumbers ==
  ASSUME Typed, NEW k \in Conns, NEW i \in Sent(k)
  PROVE  /\ i \in DOMAIN inbox[k] /\ i \in Nat /\ inbox[k][i] \in Message
         /\ inbox[k][i].snap \in Starts /\ inbox[k][i].snap \in Nat
<1>1. inbox[k] \in Seq(Message) /\ i \in DOMAIN inbox[k] /\ inbox[k][i].snap # None
  BY DEF Typed, WireTyped, Sent
<1>2. i \in Nat /\ inbox[k][i] \in Message
  BY <1>1, LenProperties, ElementOfSeq
<1> QED
  BY <1>1, <1>2, Constants DEF Message, Maybe

LEMMA StartNumbers ==
  Typed => starts \in Nat /\ \A u \in Starts : \A s \in counted[u] : s \in Starts /\ s \in Nat
BY Constants DEF Typed, AgentOK, AgentTyped, ServerOK, ServerTyped

LEMMA OrderedInit == Init => OrderInv
<1> SUFFICES ASSUME Init
             PROVE  OrderInv
  OBVIOUS
<1>1. /\ \A k \in Conns : inbox[k] = << >> /\ handler[k] = Idle
      /\ \A u \in Starts : row[u] = NoRow /\ counted[u] = {}
      /\ next = Nothing
  BY DEF Init
<1>2. \A k \in Conns : Sent(k) = {}
  BY <1>1 DEF Sent
<1>3. Ticked
  BY <1>1 DEF Ticked, Nothing
<1>4. Alone /\ WireOrdered /\ HandlersOrdered
  BY <1>1, <1>2 DEF Alone, Busy, WireOrdered, HandlersOrdered, Idle
<1>5. RowsOrdered
  BY <1>1 DEF RowsOrdered, RowOrdered, Past, NoRow, KeepsRestarts, ToSet
<1> QED
  BY <1>3, <1>4, <1>5 DEF OrderInv, InOrder

\* What the agent does for itself: at most another process starts.
LEMMA LocalOrdered ==
  ASSUME Typed, OrderInv, AgentLocal
  PROVE  OrderInv'
<1>1. UNCHANGED <<serverVars, inbox>>
  BY AgentLeavesServer DEF AgentStep
<1>2. UNCHANGED <<conn, overlap>> /\ starts \in Nat /\ starts' \in Nat /\ starts <= starts'
  <2>1. starts \in Nat
    BY StartNumbers
  <2> QED
    BY <2>1 DEF AgentLocal, Boot, Start, CreateIdFile, WriteIdFile, ReadIdFails, IdFileFails,
            IdentityStep, Edit, agentVars, Report, Tick, UpdateEffective,
            HashFails, UpdateFails, ReportStep
<1>3. Ticked'
  <2>1. CASE Boot \/ ReadIdFails \/ IdFileFails
    BY <2>1 DEF Boot, Start, CreateIdFile, WriteIdFile, ReadIdFails, IdFileFails,
                IdentityStep, OrderInv, Ticked
  <2>2. CASE \E c \in Configs : Edit(c)
    BY <2>2 DEF Edit, agentVars, OrderInv, Ticked
  <2>3. CASE Tick \/ HashFails
    BY <2>3 DEF Tick, HashFails, ReportStep, Ticked, Typed, AgentOK, AgentTyped,
                Content
  <2>4. CASE UpdateEffective \/ UpdateFails
    BY <2>4 DEF UpdateEffective, UpdateFails, ReportStep, OrderInv, Ticked,
                Typed, AgentOK, AgentTyped, Content
  <2> QED
    BY <2>1, <2>2, <2>3, <2>4 DEF AgentLocal, Report
<1>4. ASSUME InOrder
      PROVE  InOrder'
  <2>1. Alone'
    BY <1>1, <1>2, <1>4 DEF InOrder, Alone, Busy, serverVars
  <2>2. \A k \in Conns : Sent(k)' = Sent(k)
    BY <1>1 DEF Sent
  <2>3. \A n : Past(n)' <=> Past(n)
    BY <1>1 DEF Past, serverVars
  <2>4. WireOrdered'
    <3> SUFFICES ASSUME NEW k \in Conns, NEW i \in Sent(k)
                 PROVE  /\ inbox[k][i].snap <= starts' /\ Past(inbox[k][i].snap)'
                        /\ \A j \in Sent(k) : i < j => inbox[k][i].snap <= inbox[k][j].snap
      BY <1>1, <2>2 DEF WireOrdered
    <3>1. inbox[k][i].snap \in Nat
      BY SentNumbers
    <3> QED
      BY <1>1, <1>2, <1>4, <3>1 DEF InOrder, WireOrdered, Past, serverVars
  <2>5. HandlersOrdered'
    <3> SUFFICES ASSUME NEW k \in Conns, handler[k].pc = "write"
                 PROVE  (/\ handler[k].last = row[handler[k].msg.uid].last
                         /\ handler[k].history = row[handler[k].msg.uid].history
                         /\ handler[k].msg.snap # handler[k].last
                         /\ handler[k].msg.snap <= starts /\ Past(handler[k].msg.snap)
                         /\ \A i \in Sent(k) : handler[k].msg.snap <= inbox[k][i].snap)'
      BY <1>1 DEF HandlersOrdered, serverVars
    <3>1. handler[k].msg.snap \in Nat
      BY Constants DEF Typed, ServerOK, HandlerShape
    <3> QED
      BY <1>1, <1>2, <1>4, <2>2, <2>3, <3>1
         DEF InOrder, HandlersOrdered, Past, serverVars
  <2>6. Past(starts)'
    BY <1>1, <1>2, <1>4, StartNumbers DEF InOrder, RowsOrdered, Past, serverVars
  <2>7. RowsOrdered'
    BY <1>1, <1>4, <2>6 DEF InOrder, RowsOrdered, RowOrdered, serverVars
  <2> QED
    BY <2>1, <2>4, <2>5, <2>7 DEF InOrder
<1> QED
  BY <1>2, <1>3, <1>4 DEF OrderInv

\* The connection ends, and with it the end of what it carried.
LEMMA DisconnectOrdered ==
  ASSUME Typed, OrderInv, Stop \/ Drop
  PROVE  OrderInv'
<1>1. /\ UNCHANGED <<serverVars, overlap, starts>> /\ conn' = None
      /\ \A k \in Conns : /\ DOMAIN inbox'[k] \subseteq DOMAIN inbox[k]
                          /\ \A i \in DOMAIN inbox'[k] :
                               inbox'[k][i] = inbox[k][i]
      /\ WireTyped /\ WireTyped'
  BY AgentLeavesServer, DisconnectedTyped
     DEF AgentStep, Typed, Stop, Drop, Disconnected, agentVars
<1>2. Ticked'
  BY DEF Stop, Drop, Nothing, OrderInv, Ticked, agentVars
<1>3. \A k \in Conns : \A i \in Sent(k)' : i \in Sent(k) /\ inbox'[k][i] = inbox[k][i]
  BY <1>1 DEF Sent
<1>4. \A n : Past(n)' <=> Past(n)
  BY <1>1 DEF Past, serverVars
<1>5. ASSUME InOrder
      PROVE  InOrder'
  <2>1. Alone'
    <3>1. ASSUME NEW k \in Conns, inbox'[k] # << >>
          PROVE  inbox[k] # << >>
      <4>1. inbox'[k] \in Seq(Message) /\ Len(inbox'[k]) \in Nat
        BY <1>1, LenProperties DEF WireTyped
      <4>2. 1 \in DOMAIN inbox'[k]
        BY <3>1, <4>1, EmptySeq, LenProperties
      <4> QED
        BY <1>1, <4>2
    <3>2. \A k \in Conns : Busy(k)' => Busy(k)
      BY <1>1, <3>1 DEF Busy, serverVars
    <3> QED
      BY <1>1, <1>5, <3>2 DEF InOrder, Alone
  <2>2. WireOrdered'
    BY <1>1, <1>3, <1>4, <1>5 DEF InOrder, WireOrdered, Past
  <2>3. HandlersOrdered'
    BY <1>1, <1>3, <1>4, <1>5 DEF InOrder, HandlersOrdered, Past, serverVars
  <2>4. RowsOrdered'
    BY <1>1, <1>5 DEF InOrder, RowsOrdered, RowOrdered, Past, serverVars
  <2> QED
    BY <2>1, <2>2, <2>3, <2>4 DEF InOrder
<1> QED
  BY <1>1, <1>2, <1>5 DEF OrderInv

\* What the client sends is of the last process that started.
LEMMA SendOrdered ==
  ASSUME Typed, OrderInv, Send
  PROVE  OrderInv'
<1> DEFINE m == [uid |-> uid, snap |-> next.snap, eff |-> next.eff]
           n == Len(inbox[conn]) + 1
<1>1. /\ UNCHANGED <<serverVars, overlap, starts, conn>> /\ conn \in Conns
      /\ inbox' = [inbox EXCEPT ![conn] = Append(@, m)]
      /\ m.snap = next.snap /\ m.snap \in {None, starts}
      /\ inbox \in [Conns -> Seq(Message)] /\ starts \in Nat
  BY StartNumbers
     DEF Send, Typed, WireTyped, AgentOK, AgentTyped, Maybe, OrderInv, Ticked
<1>2. Ticked'
  BY DEF Send, Nothing, Ticked
<1>3. /\ inbox'[conn] = Append(inbox[conn], m)
      /\ \A k \in Conns : k # conn => inbox'[k] = inbox[k]
  BY <1>1
<1>4. /\ DOMAIN inbox[conn] = 1..n - 1 /\ n \in Nat
      /\ DOMAIN inbox'[conn] = 1..n
      /\ \A i \in 1..n - 1 : inbox'[conn][i] = inbox[conn][i]
      /\ inbox'[conn][n] = m
  <2>1. inbox[conn] \in Seq(Message) /\ m \in Message
    BY <1>1 DEF Typed, AgentOK, AgentTyped, AgentShape, Send, Content, Message
  <2>2. Len(inbox[conn]) \in Nat /\ DOMAIN inbox[conn] = 1..Len(inbox[conn])
    BY <2>1, LenProperties
  <2> HIDE DEF m
  <2>3. /\ Append(inbox[conn], m) \in Seq(Message)
        /\ Len(Append(inbox[conn], m)) = n
        /\ \A i \in 1..Len(inbox[conn]) :
             Append(inbox[conn], m)[i] = inbox[conn][i]
        /\ Append(inbox[conn], m)[n] = m
    BY <2>1, AppendProperties
  <2>4. n - 1 = Len(inbox[conn])
    BY <2>2
  <2>5. DOMAIN Append(inbox[conn], m) = 1..n
    BY <2>3, LenProperties
  <2> QED
    BY <1>3, <2>2, <2>3, <2>4, <2>5
<1> HIDE DEF m, n
<1>5. \A k \in Conns : \A i \in Sent(k)' :
        \/ i \in Sent(k) /\ inbox'[k][i] = inbox[k][i]
        \/ /\ inbox'[k][i].snap = starts /\ starts # None
           /\ \A j \in Sent(k)' : ~ i < j
  <2> SUFFICES ASSUME NEW k \in Conns, NEW i \in Sent(k)', i \notin Sent(k)
                      \/ inbox'[k][i] # inbox[k][i]
               PROVE  /\ inbox'[k][i].snap = starts /\ starts # None
                      /\ \A j \in Sent(k)' : ~ i < j
    OBVIOUS
  <2>1. k = conn /\ i = n /\ inbox'[k][n] = m /\ m.snap # None
    BY <1>3, <1>4 DEF Sent
  <2>2. \A j \in Sent(k)' : j \in 1..n
    BY <1>4, <2>1 DEF Sent
  <2> QED
    BY <1>1, <1>4, <2>1, <2>2
<1>6. \A q : Past(q)' <=> Past(q)
  BY <1>1 DEF Past, serverVars
<1>7. ASSUME InOrder
      PROVE  InOrder'
  <2>1. Alone'
    <3>1. conn # None
      BY <1>1, Constants
    <3>2. \A k \in Conns : Busy(k) => k = conn
      BY <1>7, <3>1 DEF InOrder, Alone
    <3>3. \A k \in Conns : Busy(k)' => k = conn
      BY <1>1, <1>3, <3>2 DEF Busy, serverVars
    <3> QED
      BY <1>1, <3>3 DEF Alone
  <2>2. WireOrdered'
    <3> SUFFICES ASSUME NEW k \in Conns, NEW i \in Sent(k)'
                 PROVE  /\ inbox'[k][i].snap <= starts /\ Past(inbox'[k][i].snap)
                        /\ \A j \in Sent(k)' : i < j =>
                             inbox'[k][i].snap <= inbox'[k][j].snap
      BY <1>1, <1>6 DEF WireOrdered, Past
    <3>1. CASE i \in Sent(k) /\ inbox'[k][i] = inbox[k][i]
      <4>1. inbox[k][i].snap <= starts /\ Past(inbox[k][i].snap)
        BY <1>7, <3>1 DEF InOrder, WireOrdered
      <4>2. ASSUME NEW j \in Sent(k)', i < j
            PROVE  inbox'[k][i].snap <= inbox'[k][j].snap
        BY <1>5, <1>7, <3>1, <4>1, <4>2 DEF InOrder, WireOrdered
      <4> QED
        BY <3>1, <4>1, <4>2
    <3>2. CASE inbox'[k][i].snap = starts /\ \A j \in Sent(k)' : ~ i < j
      <4>1. Past(starts) /\ starts <= starts
        BY <1>1, <1>7 DEF InOrder, RowsOrdered
      <4>2. PICK s : s = inbox'[k][i].snap
        OBVIOUS
      <4>3. s <= starts /\ Past(s)
        BY <3>2, <4>1, <4>2
      <4> QED
        BY <3>2, <4>2, <4>3
    <3> QED
      BY <1>5, <3>1, <3>2
  <2>3. HandlersOrdered'
    <3>1. ASSUME NEW k \in Conns, handler[k].pc = "write", NEW i \in Sent(k)'
          PROVE  handler[k].msg.snap <= inbox'[k][i].snap
      BY <1>5, <1>7, <3>1 DEF InOrder, HandlersOrdered
    <3> QED
      BY <1>1, <1>7, <3>1 DEF InOrder, HandlersOrdered, Past, serverVars
  <2>4. RowsOrdered'
    BY <1>1, <1>7 DEF InOrder, RowsOrdered, RowOrdered, Past, serverVars
  <2> QED
    BY <2>1, <2>2, <2>3, <2>4 DEF InOrder
<1> QED
  BY <1>1, <1>2, <1>7 DEF OrderInv

\* A connection that opens while none is busy has only its first message.
LEMMA ConnectOrdered ==
  ASSUME Typed, OrderInv, Connect
  PROVE  OrderInv'
<1> DEFINE m == [uid |-> uid, snap |-> next.snap, eff |-> file]
<1>1. /\ UNCHANGED <<serverVars, starts>> /\ conn' \in Conns
      /\ inbox' = [inbox EXCEPT ![conn'] = <<m>>]
      /\ m.snap \in {None, starts}
      /\ inbox \in [Conns -> Seq(Message)] /\ starts \in Nat
      /\ ~ overlap' => ~ overlap /\ Free = Conns
  BY StartNumbers DEF Connect, Free, Typed, WireTyped, OrderInv, Ticked
<1>2. Ticked'
  BY DEF Connect, Nothing, Ticked
<1> HIDE DEF m
<1>3. ASSUME ~ overlap'
      PROVE  InOrder'
  <2>1. InOrder /\ \A k \in Conns : inbox[k] = << >> /\ handler'[k].pc = "idle"
    BY <1>1, <1>3 DEF Free, Busy, OrderInv, serverVars
  <2>2. \A k \in Conns : inbox'[k] = IF k = conn' THEN <<m>> ELSE << >>
    BY <1>1, <2>1
  <2>3. \A k \in Conns : \A i \in Sent(k)' : i = 1 /\ inbox'[k][i].snap = starts
    BY <1>1, <2>2 DEF Sent
  <2>4. Alone'
    BY <1>1, <2>1, <2>2 DEF Alone, Busy
  <2>5. Past(starts)'
    BY <1>1, <2>1 DEF InOrder, RowsOrdered, Past, serverVars
  <2>6. WireOrdered'
    BY <1>1, <2>3, <2>5 DEF WireOrdered, Past
  <2>7. HandlersOrdered'
    BY <2>1 DEF HandlersOrdered
  <2>8. RowsOrdered'
    BY <1>1, <2>1, <2>5 DEF InOrder, RowsOrdered, RowOrdered, serverVars
  <2> QED
    BY <2>4, <2>6, <2>7, <2>8 DEF InOrder
<1> QED
  BY <1>2, <1>3 DEF OrderInv

LEMMA CrashOrdered ==
  ASSUME Typed, OrderInv, ServerCrash
  PROVE  OrderInv'
<1>1. /\ UNCHANGED <<starts, row, counted, overlap, pc, next>>
      /\ \A k \in Conns : inbox'[k] = << >> /\ handler'[k] = Idle
  BY DEF ServerCrash, agentVars
<1>2. Ticked'
  BY <1>1 DEF OrderInv, Ticked
<1>3. \A k \in Conns : Sent(k)' = {}
  BY <1>1 DEF Sent
<1>4. Alone' /\ WireOrdered' /\ HandlersOrdered'
  BY <1>1, <1>3 DEF Alone, Busy, WireOrdered, HandlersOrdered, Idle
<1>5. InOrder => RowsOrdered'
  BY <1>1 DEF InOrder, RowsOrdered, RowOrdered, Past
<1> QED
  BY <1>1, <1>2, <1>4, <1>5 DEF OrderInv, InOrder

\* A goroutine takes the next message and reads the row.
LEMMA ReceiveOrdered ==
  ASSUME Typed, OrderInv, NEW k \in Conns, Receive(k)
  PROVE  OrderInv'
<1> DEFINE m == Head(inbox[k])
           r == row[m.uid]
           w == [pc |-> "write", msg |-> m, last |-> r.last,
                 history |-> r.history]
           h == IF m.snap \in {None, r.last} THEN After(m) ELSE w
<1>1. /\ UNCHANGED <<starts, counted, overlap, pc, next, conn>>
      /\ inbox[k] # << >> /\ inbox' = [inbox EXCEPT ![k] = Tail(@)]
      /\ row' = [row EXCEPT ![m.uid].known = TRUE]
      /\ handler' = [handler EXCEPT ![k] = h]
  BY DEF Receive, HandlerStep, agentVars
<1>2. Ticked'
  BY <1>1 DEF OrderInv, Ticked
<1>3. /\ inbox[k] \in Seq(Message) /\ m \in Message /\ m = inbox[k][1]
      /\ inbox'[k] = Tail(inbox[k]) /\ 1 \in DOMAIN inbox[k]
      /\ \A i \in DOMAIN inbox'[k] :
           i \in Nat \ {0} /\ i + 1 \in DOMAIN inbox[k]
           /\ inbox'[k][i] = inbox[k][i + 1]
  <2>1. inbox[k] \in Seq(Message) /\ inbox'[k] = Tail(inbox[k])
    BY <1>1 DEF Typed, WireTyped
  <2>2. /\ m \in Message /\ Tail(inbox[k]) \in Seq(Message) /\ m = inbox[k][1]
        /\ Len(Tail(inbox[k])) = Len(inbox[k]) - 1
        /\ \A i \in 1..Len(Tail(inbox[k])) : Tail(inbox[k])[i] = inbox[k][i + 1]
    BY <1>1, <2>1, HeadTailProperties
  <2>3. /\ Len(inbox[k]) \in Nat \ {0} /\ DOMAIN inbox[k] = 1..Len(inbox[k])
        /\ DOMAIN Tail(inbox[k]) = 1..Len(Tail(inbox[k]))
    BY <1>1, <2>1, <2>2, LenProperties, EmptySeq
  <2> HIDE DEF m
  <2> QED
    BY <2>1, <2>2, <2>3
<1>4. /\ \A j \in Conns : j # k =>
           inbox'[j] = inbox[j] /\ handler'[j] = handler[j]
      /\ handler'[k] = h
  BY <1>1 DEF Typed, WireTyped, ServerOK, ServerTyped
<1>5. m.uid \in Starts /\ m.snap \in Maybe(Starts)
  BY <1>3 DEF Message
<1>6. \A u \in Starts :
        row'[u].last = row[u].last /\ row'[u].history = row[u].history
  BY <1>1, <1>5, Zenon DEF Typed, ServerOK, ServerTyped, Row
<1>7. h.pc = "write" => h = w /\ m.snap # None /\ m.snap # r.last
  BY <1>3, AfterTyped
<1>8. w.msg = m /\ w.last = r.last /\ w.history = r.history
  OBVIOUS
<1> HIDE DEF m, w, h
<1>9. /\ \A j \in Conns : j # k => Sent(j)' = Sent(j)
      /\ \A i \in Sent(k)' :
           i \in Nat /\ 1 < i + 1 /\ i + 1 \in Sent(k)
           /\ inbox'[k][i] = inbox[k][i + 1]
  BY <1>3, <1>4 DEF Sent
<1>10. m.snap # None => 1 \in Sent(k)
  BY <1>3 DEF Sent
<1>11. \A n : Past(n)' <=> Past(n)
  BY <1>1 DEF Past
<1>12. ASSUME InOrder
       PROVE  InOrder'
  <2>1. Alone'
    <3>1. \A j \in Conns : Busy(j)' => Busy(j)
      BY <1>1, <1>4 DEF Busy
    <3> QED
      BY <1>1, <1>12, <3>1 DEF InOrder, Alone
  <2>2. WireOrdered'
    <3> SUFFICES ASSUME NEW j \in Conns, NEW i \in Sent(j)'
                 PROVE  /\ inbox'[j][i].snap <= starts /\ Past(inbox'[j][i].snap)
                        /\ \A n \in Sent(j)' : i < n =>
                             inbox'[j][i].snap <= inbox'[j][n].snap
      BY <1>1, <1>11 DEF WireOrdered, Past
    <3>1. CASE j # k
      BY <1>4, <1>9, <1>12, <3>1 DEF InOrder, WireOrdered
    <3>2. CASE j = k
      <4>1. i \in Nat /\ i + 1 \in Sent(k) /\ inbox'[j][i] = inbox[k][i + 1]
        BY <1>9, <3>2
      <4>2. ASSUME NEW n \in Sent(k)', i < n
            PROVE  inbox'[k][i].snap <= inbox'[k][n].snap
        <5>1. n + 1 \in Sent(k) /\ inbox'[k][n] = inbox[k][n + 1] /\ i + 1 < n + 1
          <6>1. n \in Nat /\ n + 1 \in Sent(k) /\ inbox'[k][n] = inbox[k][n + 1]
            BY <1>9
          <6>2. i + 1 < n + 1
            BY <4>1, <4>2, <6>1
          <6> QED
            BY <6>1, <6>2
        <5> QED
          BY <1>12, <3>2, <4>1, <5>1 DEF InOrder, WireOrdered
      <4> QED
        BY <1>12, <3>2, <4>1, <4>2 DEF InOrder, WireOrdered
    <3> QED
      BY <3>1, <3>2
  <2>3. HandlersOrdered'
    <3> SUFFICES ASSUME NEW j \in Conns, handler'[j].pc = "write"
                 PROVE  (/\ handler[j].last = row[handler[j].msg.uid].last
                         /\ handler[j].history = row[handler[j].msg.uid].history
                         /\ handler[j].msg.snap # handler[j].last
                         /\ handler[j].msg.snap <= starts /\ Past(handler[j].msg.snap)
                         /\ \A i \in Sent(j) : handler[j].msg.snap <= inbox[j][i].snap)'
      BY DEF HandlersOrdered
    <3>1. CASE j # k
      <4>1. handler[j].msg.uid \in Starts
        BY <1>4, <3>1 DEF Typed, ServerOK, HandlerShape, Message
      <4> QED
        BY <1>1, <1>4, <1>6, <1>9, <1>12, <3>1, <4>1
           DEF InOrder, HandlersOrdered, Past
    <3>2. CASE j = k
      <4>1. /\ handler'[j].msg = m /\ handler'[j].last = row[m.uid].last
            /\ handler'[j].history = row[m.uid].history
            /\ m.snap # row[m.uid].last /\ 1 \in Sent(k)
        BY <1>4, <1>7, <1>8, <1>10, <3>2
      <4>2. m.snap <= starts /\ Past(m.snap)
        BY <1>3, <1>12, <4>1 DEF InOrder, WireOrdered
      <4>3. ASSUME NEW i \in Sent(k)'
            PROVE  m.snap <= inbox'[k][i].snap
        <5>1. 1 < i + 1 /\ i + 1 \in Sent(k) /\ inbox'[k][i] = inbox[k][i + 1]
          BY <1>9
        <5> QED
          BY <1>3, <1>12, <4>1, <5>1 DEF InOrder, WireOrdered
      <4> QED
        BY <1>1, <1>5, <1>6, <3>2, <4>1, <4>2, <4>3, Zenon DEF Past
    <3> QED
      BY <3>1, <3>2
  <2>4. RowsOrdered'
    BY <1>1, <1>6, <1>12 DEF InOrder, RowsOrdered, RowOrdered, Past
  <2> QED
    BY <2>1, <2>2, <2>3, <2>4 DEF InOrder
<1> QED
  BY <1>1, <1>2, <1>12 DEF OrderInv

\* It writes: no other goroutine is at work, the row is as it was read, and
\* the start is later than all that are recorded.
LEMMA WriteOrdered ==
  ASSUME Typed, OrderInv, NEW k \in Conns, WriteStartedAt(k)
  PROVE  OrderInv'
<1> DEFINE h == handler[k]
           m == h.msg
           r == row[m.uid]
<1>1. /\ UNCHANGED <<starts, inbox, overlap, pc, next, conn>>
      /\ h.pc = "write" /\ handler' = [handler EXCEPT ![k] = After(m)]
      /\ row' = [row EXCEPT ![m.uid].known = TRUE, ![m.uid].last = m.snap,
                            ![m.uid].history = NewHistory(h)]
      /\ counted' = [counted EXCEPT ![m.uid] = @ \union {m.snap}]
  BY Zenon DEF WriteStartedAt, HandlerStep, agentVars
<1>2. Ticked'
  BY <1>1, Zenon DEF OrderInv, Ticked
<1>3. /\ m \in Message /\ m.uid \in Starts /\ m.snap \in Starts /\ m.snap \in Nat
      /\ m.snap # None
  BY <1>1, Constants, Zenon DEF Typed, ServerOK, HandlerShape, Message
<1>4. /\ \A j \in Conns : j # k => handler'[j] = handler[j]
      /\ handler'[k] = After(m) /\ After(m).pc # "write"
  BY <1>1, <1>3, AfterTyped DEF Typed, ServerOK, ServerTyped
<1>5. /\ row'[m.uid].last = m.snap /\ row'[m.uid].history = NewHistory(h)
      /\ counted'[m.uid] = counted[m.uid] \union {m.snap}
      /\ \A u \in Starts : u # m.uid =>
           row'[u] = row[u] /\ counted'[u] = counted[u]
  BY <1>1, <1>3, Zenon DEF Typed, ServerOK, ServerTyped, Row
<1>6. r \in Row /\ r.history \in Histories /\ counted[m.uid] \subseteq Starts
  BY <1>3 DEF Typed, ServerOK, ServerTyped
<1> HIDE DEF h, m, r
<1>7. \A n \in Nat : Past(n) /\ m.snap <= n => Past(n)'
  BY <1>3, <1>5 DEF Past
<1>8. ASSUME InOrder
      PROVE  InOrder'
  <2>1. /\ h.last = r.last /\ h.history = r.history /\ m.snap # h.last
        /\ m.snap <= starts /\ Past(m.snap) /\ RowOrdered(m.uid)
        /\ \A i \in Sent(k) : m.snap <= inbox[k][i].snap
    BY <1>1, <1>3, <1>8, Zenon
       DEF InOrder, HandlersOrdered, RowsOrdered, h, m, r
  <2>2. Alone'
    <3>1. \A j \in Conns : Busy(j)' => Busy(j)
      BY <1>1, <1>4 DEF Busy, h
    <3> QED
      BY <1>1, <1>8, <3>1 DEF InOrder, Alone
  <2>3. \A j \in Conns : Busy(j) => j = k
    BY <1>1, <1>8 DEF InOrder, Alone, Busy, h
  <2>4. \A j \in Conns : Sent(j) # {} => j = k
    <3>1. \A j \in Conns : Sent(j) # {} => inbox[j] # << >>
      BY DEF Sent
    <3> QED
      BY <2>3, <3>1 DEF Busy
  <2>5. WireOrdered'
    <3> SUFFICES ASSUME NEW j \in Conns, NEW i \in Sent(j)
                 PROVE  /\ inbox[j][i].snap <= starts /\ Past(inbox[j][i].snap)'
                        /\ \A n \in Sent(j) : i < n =>
                             inbox[j][i].snap <= inbox[j][n].snap
      BY <1>1 DEF WireOrdered, Sent
    <3>1. inbox[j][i].snap \in Nat /\ m.snap <= inbox[j][i].snap
      BY <2>1, <2>4, SentNumbers
    <3>2. Past(inbox[j][i].snap) => Past(inbox[j][i].snap)'
      BY <1>1, <1>3, <1>5, <3>1 DEF Past
    <3> QED
      BY <1>8, <3>2 DEF InOrder, WireOrdered
  <2>6. HandlersOrdered'
    <3>1. \A j \in Conns : handler'[j].pc # "write"
      BY <1>4, <2>3 DEF Busy
    <3> QED
      BY <3>1 DEF HandlersOrdered
  <2>7. Past(starts)'
    BY <1>1, <1>3, <1>5, <1>8, <2>1, StartNumbers DEF InOrder, RowsOrdered, Past
  <2>8. ASSUME NEW u \in Starts
        PROVE  RowOrdered(u)'
    <3>1. CASE u # m.uid
      BY <1>5, <1>8, <3>1 DEF InOrder, RowsOrdered, RowOrdered
    <3>2. CASE u = m.uid
      <4>1. /\ \A s \in counted'[u] : s <= m.snap
            /\ m.snap \in counted'[u] /\ row'[u].last = m.snap
        BY <1>3, <1>5, <2>1, <3>2 DEF Past
      <4>2. KeepsRestarts(NewHistory(h), counted[m.uid] \union {m.snap})
        <5>1. CASE r.last = None
          <6>1. counted[m.uid] = {} /\ NewHistory(h) = << >>
            BY <2>1, <5>1 DEF RowOrdered, NewHistory, r
          <6> QED
            BY <1>3, <6>1, FirstStart
        <5>2. CASE r.last # None
          <6>1. /\ r.last \in counted[m.uid] /\ KeepsRestarts(r.history, counted[m.uid])
                /\ \A s \in counted[m.uid] : s <= r.last
            BY <2>1, <5>2 DEF RowOrdered, r
          <6>2. \A s \in counted[m.uid] : s \in Nat /\ s <= m.snap
            BY <1>3, <2>1, StartNumbers DEF Past
          <6>3. r.last < m.snap
            BY <1>3, <2>1, <6>1, <6>2
          <6>4. \A s \in counted[m.uid] : s < m.snap
            BY <1>3, <6>1, <6>2, <6>3
          <6>5. NewHistory(h) = LastOnes(Append(r.history, m.snap))
            BY <2>1, <5>2 DEF NewHistory, m
          <6> QED
            BY <1>3, <1>6, <6>1, <6>4, <6>5, OneMoreStart
        <5> QED
          BY <5>1, <5>2
      <4> QED
        BY <1>3, <1>5, <3>2, <4>1, <4>2 DEF RowOrdered
    <3> QED
      BY <3>1, <3>2
  <2> QED
    BY <2>2, <2>5, <2>6, <2>7, <2>8 DEF InOrder, RowsOrdered
<1> QED
  BY <1>1, <1>2, <1>8 DEF OrderInv

LEMMA EffectiveOrdered ==
  ASSUME Typed, OrderInv, NEW k \in Conns, SetEffective(k)
  PROVE  OrderInv'
<1> DEFINE m == handler[k].msg
<1>1. /\ UNCHANGED <<starts, inbox, counted, overlap, pc, next, conn>>
      /\ handler[k].pc = "eff" /\ handler' = [handler EXCEPT ![k] = Idle]
      /\ row' = [row EXCEPT ![m.uid].known = TRUE, ![m.uid].eff = m.eff]
  BY DEF SetEffective, HandlerStep, agentVars
<1>2. Ticked'
  BY <1>1 DEF OrderInv, Ticked
<1>3. /\ \A j \in Conns : j # k => handler'[j] = handler[j]
      /\ handler'[k] = Idle
  BY <1>1 DEF Typed, ServerOK, ServerTyped
<1>4. m.uid \in Starts
  BY <1>1 DEF Typed, ServerOK, HandlerShape, Message
<1>5. \A u \in Starts :
        row'[u].last = row[u].last /\ row'[u].history = row[u].history
  BY <1>1, <1>4 DEF Typed, ServerOK, ServerTyped, Row
<1>6. \A n : Past(n)' <=> Past(n)
  BY <1>1 DEF Past
<1>7. ASSUME InOrder
      PROVE  InOrder'
  <2>1. Alone'
    <3>1. \A j \in Conns : Busy(j)' => Busy(j)
      BY <1>1, <1>3 DEF Busy
    <3> QED
      BY <1>1, <1>7, <3>1 DEF InOrder, Alone
  <2>5. UNCHANGED <<starts, inbox, counted>> /\ \A j \in Conns : Sent(j)' = Sent(j)
    BY <1>1 DEF Sent
  <2>2. WireOrdered'
    BY <1>1, <1>7 DEF InOrder, WireOrdered, Sent, Past
  <2>3. HandlersOrdered'
    <3> SUFFICES ASSUME NEW j \in Conns, handler'[j].pc = "write"
                 PROVE  (/\ handler[j].last = row[handler[j].msg.uid].last
                         /\ handler[j].history = row[handler[j].msg.uid].history
                         /\ handler[j].msg.snap # handler[j].last
                         /\ handler[j].msg.snap <= starts /\ Past(handler[j].msg.snap)
                         /\ \A i \in Sent(j) : handler[j].msg.snap <= inbox[j][i].snap)'
      BY DEF HandlersOrdered
    <3>1. handler'[j] = handler[j]
      BY <1>3 DEF Idle
    <3>2. handler[j].msg.uid \in Starts
      BY <3>1 DEF Typed, ServerOK, HandlerShape, Message
    <3> QED
      BY <2>5, <1>5, <1>6, <1>7, <3>1, <3>2 DEF InOrder, HandlersOrdered
  <2>4. RowsOrdered'
    BY <1>1, <1>5, <1>7, Zenon DEF InOrder, RowsOrdered, RowOrdered, Past
  <2> QED
    BY <2>1, <2>2, <2>3, <2>4 DEF InOrder
<1> QED
  BY <1>1, <1>2, <1>7 DEF OrderInv

LEMMA OrderStays == Typed /\ OrderInv /\ [Next]_vars => OrderInv'
<1> SUFFICES ASSUME Typed, OrderInv, [Next]_vars
             PROVE  OrderInv'
  OBVIOUS
<1>1. CASE AgentStep
  BY <1>1, LocalOrdered, DisconnectOrdered, SendOrdered, ConnectOrdered
     DEF AgentStep
<1>2. ASSUME NEW k \in Conns, Handle(k)
      PROVE  OrderInv'
  BY <1>2, ReceiveOrdered, WriteOrdered, EffectiveOrdered DEF Handle
<1>3. CASE ServerCrash
  BY <1>3, CrashOrdered
<1>4. CASE UNCHANGED vars
  <2>1. /\ UNCHANGED <<starts, conn, inbox, handler, row, counted, overlap>>
        /\ Ticked' = Ticked
    BY <1>4, Zenon DEF vars, agentVars, serverVars, Ticked
  <2>2. /\ \A n : Past(n)' = Past(n)
        /\ \A j \in Conns : Busy(j)' = Busy(j) /\ Sent(j)' = Sent(j)
    BY <2>1, Zenon DEF Past, Busy, Sent
  <2>3. /\ Alone' = Alone /\ WireOrdered' = WireOrdered
        /\ HandlersOrdered' = HandlersOrdered /\ RowsOrdered' = RowsOrdered
    BY <2>1, <2>2, Zenon
       DEF Alone, WireOrdered, HandlersOrdered, RowsOrdered, RowOrdered
  <2> QED
    BY <2>1, <2>3, Zenon DEF OrderInv, InOrder
<1> QED
  BY <1>1, <1>2, <1>3, <1>4, NextCases

\* The restart history that recordStartedAt keeps is every start the agent
\* reported but the first, in order, the last maxRestartHistory of them,
\* although each goroutine reads the row in one statement and writes it in
\* another; unless a connection opened while an older one was still busy.
THEOREM RestartsCorrect == Spec => []RestartsCounted
<1>1. Spec => []Typed
  BY TypedInit, TypedStep, PTL DEF Spec
<1>2. Spec => []OrderInv
  BY <1>1, OrderedInit, OrderStays, PTL DEF Spec
<1>3. OrderInv => RestartsCounted
  BY DEF OrderInv, InOrder, RowsOrdered, RowOrdered, RestartsCounted
<1> QED
  BY <1>2, <1>3, PTL
=============================================================================
