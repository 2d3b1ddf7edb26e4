--------------------------- MODULE DashboardProofs ---------------------------
(***************************************************************************)
(* For any topologies, records, handlers and restarts: the dashboard never *)
(* goes back, the log buffer of a running collector is a LogWindow, no     *)
(* exporter is counted for more than what reached it, and the shares that  *)
(* a snapshot gives the pipelines add up to what their exporters counted.  *)
(***************************************************************************)
EXTENDS Dashboard, LogBufferProofs, FiniteSetTheorems, WellFoundedInduction

-----------------------------------------------------------------------------
\* The types of the counters, the POSTs and the answers.

Count(X) == [X -> Nat]

Snap(s) ==
  /\ s.started_at \in Nat
  /\ s.receivers \in Count(Receivers)
  /\ \A x \in Exporters :
       s.exporters[x].batches_sent \in Nat /\ s.exporters[x].batches_failed \in Nat

Typed ==
  /\ started \in Nat /\ topology \in Topologies
  /\ accepted \in Count(Receivers)
  /\ sent \in Count(Exporters) /\ failed \in Count(Exporters)
  /\ posts \subseteq Batch
  /\ call \in {None} \union {Some(b) : b \in Batch}
  /\ ingest \in {None} \union {Some(b) : b \in Batch}
  /\ mu => ingest # None

\* Of two snapshots of one process the first was not taken later.
NotAfter(s, t) ==
  /\ \A r \in Receivers : s.receivers[r] <= t.receivers[r]
  /\ \A x \in Exporters :
       /\ s.exporters[x].batches_sent <= t.exporters[x].batches_sent
       /\ s.exporters[x].batches_failed <= t.exporters[x].batches_failed

\* The answer h has ready, if it has one, was taken from this process; only a
\* running process has requests at all.
Ready(h) == handler[h][1] = "ok"
HandlerOK(h) ==
  /\ handler[h] # <<Free>> => up
  /\ Ready(h) => /\ up
                 /\ Snap(handler[h][2])
                 /\ handler[h][2].started_at = started
                 /\ NotAfter(handler[h][2], buildSnapshot)
HandlersOK == DOMAIN handler = Handlers /\ \A h \in Handlers : HandlerOK(h)

\* What is on the screen was taken from this process or an earlier one.
ScreenOK ==
  last_snapshot # None =>
    /\ Snap(last_snapshot[1])
    /\ last_snapshot[1].started_at <= started
    /\ up /\ last_snapshot[1].started_at = started
         => NotAfter(last_snapshot[1], buildSnapshot)

\* An answer being awaited was taken after what is on the screen.
AwaitedOK ==
  \A h \in Handlers :
    /\ poll = Some(h) /\ Ready(h)
    /\ last_snapshot # None /\ last_snapshot[1].started_at = started
    => NotAfter(last_snapshot[1], handler[h][2])

IInv == Typed /\ HandlersOK /\ ScreenOK /\ AwaitedOK

-----------------------------------------------------------------------------
\* The log buffer within the collector.

LEMMA TypedInit == Init => Typed
  BY DEF Init, BufferInit, Typed, Count, None

LEMMA BatchLength == ASSUME NEW b \in Batch PROVE Len(b) \in Nat
  BY BufferAssumption, LenProperties

\* Every step leaves the counters alone, or counts up, or belongs to a crash.
Up ==
  /\ up' = up /\ started' = started
  /\ \A r \in Receivers : accepted'[r] >= accepted[r]
  /\ \A x \in Exporters : sent'[x] >= sent[x] /\ failed'[x] >= failed[x]

CountersSame == UNCHANGED <<topology, up, started, accepted, sent, failed>>
PostsSame == UNCHANGED <<posts, call, ingest>>

LEMMA SameIsUp == Typed /\ CountersSame => Up
  BY DEF Typed, CountersSame, Up, Count

\* The steps of the collector that no request for /status takes part in.
Quiet ==
  Accept \/ Export \/ Post \/ BeginIngest \/ PutOne \/ EndIngest \/ PostTimeout
    \/ Logs

LEMMA QuietStep ==
  ASSUME Typed, Quiet
  PROVE  Typed' /\ Up /\ handler' = handler
<1> USE DEF Typed, Count
<1>1. CASE Accept
  <2>1. PICK r : Collector([accepted EXCEPT ![r] = @ + 1], sent, failed)
    BY <1>1 DEF Accept
  <2>2. accepted' = [accepted EXCEPT ![r] = accepted[r] + 1]
    BY <2>1 DEF Collector
  <2>3. accepted' \in [Receivers -> Nat]
        /\ \A v \in Receivers : accepted'[v] >= accepted[v]
    <3>1. ASSUME NEW v \in Receivers
          PROVE  accepted'[v] \in Nat /\ accepted'[v] >= accepted[v]
      <4>1. accepted'[v] = IF v = r THEN accepted[v] + 1 ELSE accepted[v]
        BY <2>2
      <4> QED
        BY <4>1
    <3>2. accepted' = [v \in Receivers |-> accepted'[v]]
      BY <2>2
    <3> QED
      BY <3>1, <3>2
  <2> QED
    BY <2>1, <2>3 DEF Collector, bufferVars, Up
<1>2. CASE Export
  BY <1>2 DEF Export, Collector, bufferVars, Up
<1>3. CASE Post
  <2>1. PICK b \in Batch : call' = Some(b) /\ posts' = posts \union {b}
    BY <1>3 DEF Post
  <2>2. CountersSame /\ UNCHANGED <<mu, ingest, handler>>
    BY <1>3 DEF Post, bufferVars, CountersSame
  <2> QED
    BY <2>1, <2>2, SameIsUp DEF CountersSame
<1>4. CASE BeginIngest
  BY <1>4 DEF BeginIngest, Lock, Some, None, Up
<1>5. CASE PutOne
  BY <1>5 DEF PutOne, Put, Up
<1>6. CASE EndIngest
  <2>1. CASE call = ingest
    <3>1. PICK b \in Batch : ingest = Some(b)
      BY <1>6 DEF EndIngest, Unlock
    <3>2. sent' = [sent EXCEPT ![LogExporter] = sent[LogExporter] + Len(b)]
      BY <1>6, <2>1, <3>1 DEF EndIngest, Some
    <3>3. sent' \in [Exporters -> Nat]
          /\ \A x \in Exporters : sent'[x] >= sent[x]
      BY <3>2, BatchLength, TopologyAssumption
    <3> QED
      BY <1>6, <2>1, <3>3 DEF EndIngest, Unlock, Up
  <2>2. CASE call # ingest
    BY <1>6, <2>2 DEF EndIngest, Unlock, Up
  <2> QED
    BY <2>1, <2>2
<1>7. CASE PostTimeout
  <2>1. PICK b \in Batch : call = Some(b)
    BY <1>7 DEF PostTimeout
  <2>2. failed' = [failed EXCEPT ![LogExporter] = failed[LogExporter] + Len(b)]
    BY <1>7, <2>1 DEF PostTimeout, Some
  <2>3. failed' \in [Exporters -> Nat]
        /\ \A x \in Exporters : failed'[x] >= failed[x]
    BY <2>2, BatchLength, TopologyAssumption
  <2> QED
    BY <1>7, <2>3 DEF PostTimeout, bufferVars, Up
<1>8. CASE Logs
  BY <1>8 DEF Logs, Clear, Snapshot, Up
<1> QED
  BY <1>1, <1>2, <1>3, <1>4, <1>5, <1>6, <1>7, <1>8 DEF Quiet

-----------------------------------------------------------------------------
\* What a step leaves alone stays in order.

LEMMA SnapshotFields ==
  /\ buildSnapshot.started_at = started
  /\ buildSnapshot.receivers = accepted
  /\ \A x \in Exporters : /\ buildSnapshot.exporters[x].batches_sent = sent[x]
                         /\ buildSnapshot.exporters[x].batches_failed = failed[x]
  BY DEF buildSnapshot

LEMMA CurrentSnap ==
  ASSUME Typed
  PROVE  /\ Snap(buildSnapshot) /\ buildSnapshot.started_at = started
         /\ NotAfter(buildSnapshot, buildSnapshot)
  BY SnapshotFields DEF Typed, Count, Snap, NotAfter

\* A snapshot is not taken later than one of any later moment.
LEMMA StaysBelow ==
  ASSUME Typed, Typed', Up, NEW s, Snap(s), NotAfter(s, buildSnapshot)
  PROVE  NotAfter(s, buildSnapshot')
<1>1. /\ buildSnapshot'.receivers = accepted'
      /\ \A x \in Exporters : /\ buildSnapshot'.exporters[x].batches_sent = sent'[x]
                             /\ buildSnapshot'.exporters[x].batches_failed = failed'[x]
  BY DEF buildSnapshot
<1>2. ASSUME NEW r \in Receivers
      PROVE  s.receivers[r] <= buildSnapshot'.receivers[r]
  <2>1. s.receivers[r] <= accepted[r] /\ accepted[r] <= accepted'[r]
    BY SnapshotFields DEF NotAfter, Up, Typed, Count
  <2>2. s.receivers[r] \in Nat /\ accepted[r] \in Nat /\ accepted'[r] \in Nat
    BY DEF Snap, Typed, Count
  <2> QED
    BY <2>1, <2>2, <1>1
<1>3. ASSUME NEW x \in Exporters
      PROVE  /\ s.exporters[x].batches_sent <= buildSnapshot'.exporters[x].batches_sent
             /\ s.exporters[x].batches_failed
                  <= buildSnapshot'.exporters[x].batches_failed
  <2>1. /\ s.exporters[x].batches_sent <= sent[x]
        /\ s.exporters[x].batches_failed <= failed[x]
    BY SnapshotFields DEF NotAfter
  <2>2. sent[x] <= sent'[x] /\ failed[x] <= failed'[x]
    BY DEF Up, Typed, Count
  <2>3. /\ s.exporters[x].batches_sent \in Nat /\ s.exporters[x].batches_failed \in Nat
        /\ sent[x] \in Nat /\ failed[x] \in Nat
        /\ sent'[x] \in Nat /\ failed'[x] \in Nat
    BY DEF Snap, Typed, Count
  <2> QED
    BY <2>1, <2>2, <2>3, <1>1
<1> QED
  BY <1>2, <1>3 DEF NotAfter

LEMMA HandlerKept ==
  ASSUME Typed, Typed', Up, NEW h \in Handlers, HandlerOK(h),
         handler'[h] = handler[h]
  PROVE  HandlerOK(h)'
<1>1. CASE Ready(h)
  <2>1. NotAfter(handler[h][2], buildSnapshot')
    BY <1>1, StaysBelow DEF HandlerOK
  <2> QED
    BY <1>1, <2>1 DEF HandlerOK, Ready, Up
<1>2. CASE ~ Ready(h)
  BY <1>2 DEF HandlerOK, Ready, Up
<1> QED
  BY <1>1, <1>2

LEMMA ScreenKept ==
  ASSUME Typed, Typed', Up, ScreenOK, last_snapshot' = last_snapshot
  PROVE  ScreenOK'
<1>1. CASE last_snapshot # None /\ up /\ last_snapshot[1].started_at = started
  <2>1. NotAfter(last_snapshot[1], buildSnapshot')
    BY <1>1, StaysBelow DEF ScreenOK
  <2> QED
    BY <1>1, <2>1 DEF ScreenOK, Up
<1>2. CASE ~ (last_snapshot # None /\ up /\ last_snapshot[1].started_at = started)
  BY <1>2 DEF ScreenOK, Up
<1> QED
  BY <1>1, <1>2

\* The collector works on, or a key is pressed or a poll refused.
LEMMA WorkStep ==
  ASSUME IInv, Typed', Up, UNCHANGED <<handler, last_snapshot, poll>>
  PROVE  IInv'
<1>1. HandlersOK'
  BY HandlerKept DEF IInv, HandlersOK
<1>2. ScreenOK'
  BY ScreenKept DEF IInv
<1>3. AwaitedOK'
  BY DEF IInv, AwaitedOK, Ready, Up
<1> QED
  BY <1>1, <1>2, <1>3 DEF IInv

-----------------------------------------------------------------------------
\* Requests for /status.

LEMMA TypedKept ==
  ASSUME Typed, CountersSame, PostsSame, UNCHANGED mu
  PROVE  Typed' /\ Up
  BY SameIsUp DEF Typed, CountersSame, PostsSame

LEMMA HandleStep ==
  ASSUME IInv, NEW h \in Handlers, NEW state, Handle(h, state),
         up \/ state = <<Free>>,
         state[1] = "ok" => /\ up /\ Snap(state[2]) /\ state[2].started_at = started
                            /\ NotAfter(state[2], buildSnapshot)
  PROVE  Typed' /\ Up /\ HandlersOK'
<1>1. Typed' /\ Up
  BY TypedKept DEF IInv, Handle, CountersSame, PostsSame, bufferVars
<1>2. handler' = [handler EXCEPT ![h] = state] /\ DOMAIN handler = Handlers
  BY DEF Handle, IInv, HandlersOK
<1>3. HandlerOK(h)'
  <2>1. handler'[h] = state
    BY <1>2
  <2>2. state[1] = "ok" => NotAfter(state[2], buildSnapshot')
    BY <1>1, StaysBelow DEF IInv
  <2> QED
    BY <1>1, <2>1, <2>2 DEF HandlerOK, Ready, Up
<1>4. ASSUME NEW g \in Handlers, g # h
      PROVE  HandlerOK(g)'
  BY <1>1, <1>2, <1>4, HandlerKept DEF IInv, HandlersOK
<1> QED
  BY <1>1, <1>2, <1>3, <1>4 DEF HandlersOK

LEMMA ScrapeStep ==
  ASSUME IInv, NEW h \in Handlers, Scrape(h), UNSEEN
  PROVE  IInv'
<1>1. up /\ DOMAIN handler = Handlers
  BY DEF Scrape, IInv, HandlersOK, HandlerOK, Asked, Free
<1> DEFINE answer == <<"ok", buildSnapshot>>
<1>2. answer[1] = "ok" /\ answer[2] = buildSnapshot /\ Handle(h, answer)
  BY DEF Scrape
<1>3. handler' = [handler EXCEPT ![h] = answer]
  BY <1>2 DEF Handle
<1> HIDE DEF answer
<1>4. Snap(answer[2]) /\ answer[2].started_at = started
      /\ NotAfter(answer[2], buildSnapshot)
  BY <1>2, CurrentSnap DEF IInv
<1>5. Typed' /\ Up /\ HandlersOK'
  BY <1>1, <1>2, <1>4, HandleStep
<1>6. ScreenOK'
  BY <1>5, ScreenKept DEF IInv, UNSEEN
<1>7. AwaitedOK'
  <2> SUFFICES ASSUME NEW g \in Handlers,
                      poll = Some(g), Ready(g)', last_snapshot # None,
                      last_snapshot[1].started_at = started
               PROVE  NotAfter(last_snapshot[1], handler'[g][2])
    BY <1>5 DEF AwaitedOK, UNSEEN, Up
  <2>1. CASE g = h
    <3>1. handler'[g][2] = buildSnapshot
      BY <1>1, <1>2, <1>3, <2>1
    <3> QED
      BY <1>1, <3>1 DEF IInv, ScreenOK
  <2>2. CASE g # h
    BY <1>1, <1>3, <2>2 DEF IInv, AwaitedOK, Ready
  <2> QED
    BY <2>1, <2>2
<1> QED
  BY <1>5, <1>6, <1>7 DEF IInv

\* A request that gets no snapshot.
LEMMA NoAnswerStep ==
  ASSUME IInv, NEW h \in Handlers, NEW state, Handle(h, state),
         up \/ state = <<Free>>, state[1] # "ok",
         poll' = poll \/ poll' = None \/ poll' = Some(h),
         UNCHANGED last_snapshot
  PROVE  IInv'
<1>1. Typed' /\ Up /\ HandlersOK'
  BY HandleStep
<1>2. ScreenOK'
  BY <1>1, ScreenKept DEF IInv
<1>3. handler' = [handler EXCEPT ![h] = state] /\ DOMAIN handler = Handlers
  BY DEF Handle, IInv, HandlersOK
<1>4. AwaitedOK'
  <2> SUFFICES ASSUME NEW g \in Handlers,
                      poll' = Some(g), Ready(g)', last_snapshot # None,
                      last_snapshot[1].started_at = started
               PROVE  NotAfter(last_snapshot[1], handler'[g][2])
    BY <1>1 DEF AwaitedOK, Up
  <2>1. g # h
    BY <1>3 DEF Ready
  <2>2. poll = Some(g)
    BY <2>1 DEF Some, None
  <2>3. handler'[g] = handler[g]
    BY <1>3, <2>1
  <2> QED
    BY <2>2, <2>3 DEF IInv, AwaitedOK, Ready
<1> QED
  BY <1>1, <1>2, <1>4 DEF IInv

LEMMA ReplyStep ==
  ASSUME IInv, NEW h \in Handlers, Reply(h)
  PROVE  IInv'
<1>1. CASE poll = Some(h) /\ Ready(h)
  <2>1. Handle(h, <<Free>>) /\ last_snapshot' = Some(handler[h][2]) /\ poll' = None
    BY <1>1 DEF Reply, PollResult, Ready
  <2>2. <<Free>>[1] # "ok"
    BY DEF Free
  <2>3. Typed' /\ Up /\ HandlersOK'
    BY <2>1, <2>2, HandleStep
  <2>4. ScreenOK'
    <3>1. /\ Snap(handler[h][2]) /\ handler[h][2].started_at = started
          /\ NotAfter(handler[h][2], buildSnapshot)
      BY <1>1 DEF IInv, HandlersOK, HandlerOK
    <3>2. NotAfter(handler[h][2], buildSnapshot')
      BY <2>3, <3>1, StaysBelow DEF IInv
    <3>3. last_snapshot'[1] = handler[h][2]
      BY <2>1 DEF Some
    <3>4. started \in Nat /\ started' = started
      BY <2>3 DEF IInv, Typed, Up
    <3> QED
      BY <3>1, <3>2, <3>3, <3>4 DEF ScreenOK
  <2>5. AwaitedOK'
    BY <2>1 DEF AwaitedOK, None, Some
  <2> QED
    BY <2>3, <2>4, <2>5 DEF IInv
<1>2. CASE ~ (poll = Some(h) /\ Ready(h))
  <2>1. Handle(h, <<Free>>) /\ last_snapshot' = last_snapshot
        /\ (poll' = poll \/ poll' = None)
    BY <1>2 DEF Reply, PollResult, Ready
  <2>2. <<Free>>[1] # "ok"
    BY DEF Free
  <2> QED
    BY <2>1, <2>2, NoAnswerStep
<1> QED
  BY <1>1, <1>2

LEMMA CrashStep ==
  ASSUME IInv, Crash
  PROVE  IInv'
<1>1. Typed'
  BY DEF IInv, Typed, Count, Crash, Reset, None
<1>2. \A h \in Handlers : handler'[h] = <<Free>> /\ ~ Ready(h)'
  BY DEF Crash, Ready, Free
<1>3. HandlersOK'
  BY <1>2 DEF Crash, HandlersOK, HandlerOK
<1>4. ScreenOK'
  BY DEF IInv, ScreenOK, Crash, UNSEEN
<1>5. AwaitedOK'
  BY <1>2 DEF AwaitedOK
<1> QED
  BY <1>1, <1>3, <1>4, <1>5 DEF IInv

LEMMA StartStep ==
  ASSUME IInv, Start
  PROVE  IInv'
<1>1. Typed'
  BY DEF IInv, Typed, Start, bufferVars
<1>2. \A h \in Handlers : handler'[h] = <<Free>> /\ ~ Ready(h)'
  BY DEF Start, IInv, HandlersOK, HandlerOK, Ready, Free
<1>3. HandlersOK'
  BY <1>2 DEF Start, IInv, HandlersOK, HandlerOK
<1>4. ScreenOK'
  BY DEF IInv, Typed, Snap, ScreenOK, Start, UNSEEN
<1>5. AwaitedOK'
  BY <1>2 DEF AwaitedOK
<1> QED
  BY <1>1, <1>3, <1>4, <1>5 DEF IInv

-----------------------------------------------------------------------------
\* All steps.

LEMMA InitIInv == Init => IInv
<1> SUFFICES ASSUME Init PROVE IInv
  OBVIOUS
<1>1. HandlersOK /\ ScreenOK /\ AwaitedOK
  BY DEF Init, HandlersOK, HandlerOK, ScreenOK, AwaitedOK, Ready, Free, None
<1> QED
  BY <1>1, TypedInit DEF IInv

LEMMA NextIInv ==
  ASSUME IInv, [Next]_vars
  PROVE  IInv'
<1>1. CASE Quiet /\ UNSEEN
  BY <1>1, QuietStep, WorkStep DEF IInv, UNSEEN
<1>2. ASSUME NEW h \in Handlers, Scrape(h), UNSEEN
      PROVE  IInv'
  BY <1>2, ScrapeStep
<1>3. ASSUME NEW h \in Handlers, ScrapeFails(h), UNSEEN
      PROVE  IInv'
  <2>1. up
    BY <1>3 DEF ScrapeFails, IInv, HandlersOK, HandlerOK, Asked, Free
  <2>2. <<Unavailable>>[1] # "ok"
    BY DEF Unavailable
  <2> QED
    BY <1>3, <2>1, <2>2, NoAnswerStep DEF ScrapeFails, UNSEEN
<1>4. CASE Tick
  <2>1. PICK h \in Handlers : poll' = Some(h) /\ Handle(h, <<Asked>>)
    BY <1>4 DEF Tick, Idle
  <2>2. <<Asked>>[1] # "ok"
    BY DEF Asked
  <2> QED
    BY <1>4, <2>1, <2>2, NoAnswerStep DEF Tick
<1>5. CASE GiveUp
  <2>1. Typed' /\ Up /\ HandlersOK'
    <3>1. Typed' /\ Up /\ handler' = handler
      BY <1>5, TypedKept
      DEF GiveUp, IInv, extensionVars, bufferVars, CountersSame, PostsSame
    <3> QED
      BY <3>1, HandlerKept DEF IInv, HandlersOK
  <2>2. last_snapshot' = last_snapshot /\ poll' = None
    BY <1>5 DEF GiveUp, PollResult
  <2>3. ScreenOK'
    BY <2>1, <2>2, ScreenKept DEF IInv
  <2>4. AwaitedOK'
    BY <2>2 DEF AwaitedOK, None, Some
  <2> QED
    BY <2>1, <2>3, <2>4 DEF IInv
<1>6. CASE Refused \/ Type \/ Key \/ UNCHANGED vars
  <2>1. UNCHANGED <<extensionVars, last_snapshot, poll>>
    BY <1>6 DEF Refused, Type, Key, vars
  <2>2. Typed' /\ Up
    BY <2>1, TypedKept DEF IInv, extensionVars, bufferVars, CountersSame, PostsSame
  <2> QED
    BY <2>1, <2>2, WorkStep DEF extensionVars
<1> QED
  BY <1>1, <1>2, <1>3, <1>4, <1>5, <1>6, ReplyStep, CrashStep, StartStep
  DEF Next, ExtensionStep, Quiet

\* Whatever a poll, an answer or the process runs into, what the dashboard
\* shows was taken from a process that has been started, and no later than now.
THEOREM InvAlways == Spec => []IInv
  BY InitIInv, NextIInv, PTL DEF Spec

\* The screen never goes back (App::update, fetch_status).
THEOREM NeverBack == Spec => NeverGoesBack
<1>1. ASSUME IInv, [Next]_vars, last_snapshot' # last_snapshot
      PROVE  \E h \in Handlers :
               Reply(h) /\ poll = Some(h) /\ Ready(h)
  <2>1. ~ ExtensionStep /\ ~ Crash /\ ~ Start /\ ~ Tick /\ ~ Refused /\ ~ GiveUp
        /\ ~ Type /\ ~ Key /\ ~ UNCHANGED vars
    BY <1>1 DEF ExtensionStep, Crash, Start, Tick, Refused, GiveUp, PollResult, Type,
         Key, vars, UNSEEN
  <2>2. PICK h \in Handlers : Reply(h)
    BY <1>1, <2>1 DEF Next
  <2> QED
    BY <1>1, <2>2 DEF Reply, PollResult, Ready
<1>2. ASSUME IInv, NEW h \in Handlers, Reply(h), poll = Some(h), Ready(h),
             last_snapshot # None
      PROVE  Onward
  <2> DEFINE old == last_snapshot[1]
             new == handler[h][2]
  <2>1. last_snapshot' # None /\ last_snapshot'[1] = new
    <3>1. handler[h][1] = "ok"
      BY <1>2 DEF Ready
    <3>2. last_snapshot' = Some(new)
      BY <1>2, <3>1, Zenon DEF Reply, PollResult
    <3> QED
      BY <3>2 DEF Some, None
  <2>2. Snap(old) /\ Snap(new) /\ new.started_at = started
        /\ old.started_at <= started /\ started \in Nat
    BY <1>2 DEF IInv, Typed, ScreenOK, HandlersOK, HandlerOK
  <2>3. CASE old.started_at = started
    <3>1. NotAfter(old, new)
      BY <1>2, <2>3 DEF IInv, AwaitedOK
    <3> QED
      BY <1>2, <2>1, <2>2, <2>3, <3>1 DEF Onward, NotAfter, Snap, Count
  <2>4. CASE old.started_at # started
    BY <2>1, <2>2, <2>4 DEF Onward, Snap
  <2> QED
    BY <2>3, <2>4
<1>3. ASSUME IInv, last_snapshot' = last_snapshot
      PROVE  Onward
  <2>1. last_snapshot # None => Snap(last_snapshot[1])
    BY <1>3 DEF IInv, ScreenOK
  <2> QED
    BY <1>3, <2>1 DEF Onward, Snap, Count
<1>4. IInv /\ [Next]_vars => [Onward]_vars
  BY <1>1, <1>2, <1>3 DEF Onward
<1> QED
  BY <1>4, InvAlways, PTL DEF Spec, NeverGoesBack

-----------------------------------------------------------------------------
\* The log buffer of the running collector takes the steps of a log buffer.

LEMMA BufferStep ==
  ASSUME Typed, [Next]_vars
  PROVE  [BufferNext]_bufferVars
<1>1. CASE BeginIngest
  BY <1>1 DEF BeginIngest, Typed, BufferNext
<1>2. CASE PutOne \/ EndIngest
  BY <1>2 DEF PutOne, EndIngest, BufferNext
<1>3. CASE Logs
  BY <1>3 DEF Logs, BufferNext
<1>4. CASE Crash
  BY <1>4 DEF Crash, BufferNext
<1>5. CASE Accept \/ Export \/ Post \/ PostTimeout \/ Start \/ UNCHANGED vars
  BY <1>5 DEF Accept, Export, Collector, Post, PostTimeout, Start, vars, extensionVars
<1>6. ASSUME NEW h \in Handlers, Scrape(h) \/ ScrapeFails(h) \/ Reply(h)
      PROVE  UNCHANGED bufferVars
  BY <1>6 DEF Scrape, ScrapeFails, Reply, Handle
<1>7. CASE Tick \/ Refused \/ GiveUp \/ Type \/ Key
  BY <1>7 DEF Tick, Refused, GiveUp, Type, Key, Handle, extensionVars
<1> QED
  BY <1>1, <1>2, <1>3, <1>4, <1>5, <1>6, <1>7 DEF Next, ExtensionStep

\* In a collector that posts, gives up, is asked and dies as it pleases, GET
\* /logs answers from the window of the last Capacity records (logbuffer.go).
THEOREM ServesWindow == Spec => ImplementsLogWindow
<1>1. Init => BufferInit
  BY DEF Init
<1>2. IInv => Typed
  BY DEF IInv
<1>3. Spec => BufferSpec
  BY <1>1, <1>2, BufferStep, InvAlways, PTL DEF Spec, BufferSpec
<1> QED
  BY <1>3, RingIsWindow
-----------------------------------------------------------------------------
(* Sums over a finite set: FoldFunction takes its elements one by one.     *)

Chosen(s) == CHOOSE x \in s : TRUE

LEMMA NatSets ==
  ASSUME NEW T \in SUBSET Nat, 0 \in T, \A n \in T : n + 1 \in T
  PROVE  T = Nat
<1> SUFFICES ASSUME Nat \ T # {}
             PROVE  FALSE
  OBVIOUS
<1>1. PICK x \in Nat \ T : \A y \in Nat \ T : ~ <<y, x>> \in OpToRel(<, Nat)
  BY NatLessThanWellFounded, WFMin
<1>2. x # 0 /\ x - 1 \in Nat /\ x - 1 < x /\ x - 1 + 1 = x
  OBVIOUS
<1>3. <<x - 1, x>> \in OpToRel(<, Nat)
  BY <1>2 DEF OpToRel
<1> QED
  BY <1>1, <1>2, <1>3

LEMMA ChosenFrom ==
  ASSUME NEW D, IsFiniteSet(D), NEW s \in SUBSET D, s # {}
  PROVE  /\ Chosen(s) \in s /\ s \ {Chosen(s)} \in SUBSET D
         /\ Cardinality(s) \in Nat \ {0}
         /\ Cardinality(s \ {Chosen(s)}) = Cardinality(s) - 1
<1>1. Chosen(s) \in s
  BY DEF Chosen
<1>2. IsFiniteSet(s)
  BY FS_Subset
<1> QED
  BY <1>1, <1>2, FS_CardinalityType, FS_EmptySet, FS_RemoveElement

\* What holds of no element, and of one more than it holds of, holds of all.
LEMMA SubsetInduction ==
  ASSUME NEW D, IsFiniteSet(D), NEW G, {} \in G,
         \A s \in SUBSET D : s # {} /\ s \ {Chosen(s)} \in G => s \in G
  PROVE  SUBSET D \subseteq G
<1> DEFINE T == {n \in Nat : \A s \in SUBSET D : Cardinality(s) = n => s \in G}
<1>1. \A s \in SUBSET D : IsFiniteSet(s) /\ Cardinality(s) \in Nat
  BY FS_Subset, FS_CardinalityType
<1>2. 0 \in T
  BY <1>1, FS_EmptySet
<1>3. ASSUME NEW n \in T
      PROVE  n + 1 \in T
  <2> SUFFICES ASSUME NEW s \in SUBSET D, Cardinality(s) = n + 1
               PROVE  s \in G
    OBVIOUS
  <2>1. s # {}
    BY FS_EmptySet
  <2>2. Cardinality(s \ {Chosen(s)}) = n /\ s \ {Chosen(s)} \in SUBSET D
    BY <2>1, ChosenFrom
  <2> QED
    BY <2>1, <2>2
<1> HIDE DEF T
<1>4. T = Nat
  <2>1. T \in SUBSET Nat
    BY DEF T
  <2> QED
    BY <1>2, <1>3, <2>1, NatSets
<1> QED
  BY <1>1, <1>4 DEF T

Recursive(g, D, b, H) ==
  \A s \in SUBSET D :
    g[s] = IF s = {} THEN b ELSE H[Chosen(s)][g[s \ {Chosen(s)}]]

\* A function on the subsets may be given by its value without one element.
LEMMA SubsetRecursion ==
  ASSUME NEW D, IsFiniteSet(D), NEW V, NEW b \in V,
         NEW H \in [D -> [V -> V]]
  PROVE  \E g \in [SUBSET D -> V] : Recursive(g, D, b, H)
<1> DEFINE Rec(g) == [s \in SUBSET D |->
                  IF s = {} THEN b ELSE H[Chosen(s)][g[s \ {Chosen(s)}]]]
           Upto(n, g) == \A s \in SUBSET D : Cardinality(s) <= n => g[s] = Rec(g)[s]
           T == {n \in Nat : \E g \in [SUBSET D -> V] : Upto(n, g)}
<1>1. \A g \in [SUBSET D -> V] : Rec(g) \in [SUBSET D -> V]
  <2> SUFFICES ASSUME NEW g \in [SUBSET D -> V], NEW s \in SUBSET D, s # {}
               PROVE  H[Chosen(s)][g[s \ {Chosen(s)}]] \in V
    OBVIOUS
  <2>1. Chosen(s) \in D /\ s \ {Chosen(s)} \in SUBSET D
    BY ChosenFrom
  <2> QED
    BY <2>1
<1>2. 0 \in T
  <2> DEFINE g == [s \in SUBSET D |-> b]
  <2>1. ASSUME NEW s \in SUBSET D, Cardinality(s) <= 0
        PROVE  s = {}
    BY <2>1, FS_Subset, FS_CardinalityType, FS_EmptySet
  <2>2. g \in [SUBSET D -> V] /\ Upto(0, g)
    BY <2>1
  <2> QED
    BY <2>2
<1>3. ASSUME NEW n \in T
      PROVE  n + 1 \in T
  <2>1. PICK g \in [SUBSET D -> V] : Upto(n, g)
    OBVIOUS
  <2>2. PICK h \in [SUBSET D -> V] : h = Rec(g)
    BY <1>1
  <2>3. \A s \in SUBSET D : Cardinality(s) <= n => h[s] = g[s]
    BY <2>1, <2>2
  <2>4. Upto(n + 1, h)
    <3> SUFFICES ASSUME NEW s \in SUBSET D, Cardinality(s) <= n + 1
                 PROVE  h[s] = Rec(h)[s]
      OBVIOUS
    <3>1. CASE s = {}
      BY <2>2, <3>1
    <3>2. CASE s # {}
      <4>1. s \ {Chosen(s)} \in SUBSET D /\ Cardinality(s \ {Chosen(s)}) <= n
        BY <3>2, ChosenFrom
      <4>2. h[s \ {Chosen(s)}] = g[s \ {Chosen(s)}]
        BY <2>3, <4>1
      <4> QED
        BY <2>2, <3>2, <4>2
    <3> QED
      BY <3>1, <3>2
  <2>5. n + 1 \in Nat
    OBVIOUS
  <2> QED
    BY <2>4, <2>5
<1>4. Cardinality(D) \in T
  <2>1. T \in SUBSET Nat
    OBVIOUS
  <2> HIDE DEF T
  <2> QED
    BY <1>2, <1>3, <2>1, NatSets, FS_CardinalityType
<1>5. PICK g \in [SUBSET D -> V] : Upto(Cardinality(D), g)
  BY <1>4
<1>6. \A s \in SUBSET D : g[s] = Rec(g)[s]
  BY <1>5, FS_Subset
<1> QED
  BY <1>6, Zenon DEF Recursive

LEMMA PlusUnfolds ==
  ASSUME NEW f
  PROVE  Plus(f) = (CHOOSE iter : iter = [s \in SUBSET DOMAIN f |->
                      IF s = {} THEN 0
                      ELSE f[Chosen(s)] + iter[s \ {Chosen(s)}]])[DOMAIN f]
BY Zenon DEF Plus, FoldFunction, FoldFunctionOnSet, MapThenFoldSet, Chosen

PartialSums(g, D, f) ==
  /\ g[{}] = 0
  /\ \A s \in SUBSET D : s # {} =>
       g[s] = f[Chosen(s)] + g[s \ {Chosen(s)}]

LEMMA PlusByElements ==
  ASSUME NEW D, IsFiniteSet(D), NEW f \in [D -> Nat]
  PROVE  \E g \in [SUBSET D -> Nat] : PartialSums(g, D, f) /\ Plus(f) = g[D]
<1> DEFINE Eq(g) == g = [s \in SUBSET D |->
                      IF s = {} THEN 0 ELSE f[Chosen(s)] + g[s \ {Chosen(s)}]]
           H == [d \in D |-> [v \in Nat |-> f[d] + v]]
           g0 == CHOOSE g : Eq(g)
<1>1. H \in [D -> [Nat -> Nat]]
  OBVIOUS
<1>2. PICK g \in [SUBSET D -> Nat] : Recursive(g, D, 0, H)
  <2> HIDE DEF H
  <2> QED
    BY <1>1, SubsetRecursion
<1>3. \A s \in SUBSET D : s # {} =>
        H[Chosen(s)][g[s \ {Chosen(s)}]] = f[Chosen(s)] + g[s \ {Chosen(s)}]
  <2> SUFFICES ASSUME NEW s \in SUBSET D, s # {}
               PROVE  H[Chosen(s)][g[s \ {Chosen(s)}]] = f[Chosen(s)] + g[s \ {Chosen(s)}]
    OBVIOUS
  <2>1. Chosen(s) \in D /\ s \ {Chosen(s)} \in SUBSET D
    BY ChosenFrom
  <2> QED
    BY <2>1
<1>4. Eq(g)
  BY <1>2, <1>3 DEF Recursive
<1>5. Eq(g0)
  BY <1>4
<1> HIDE DEF g0
<1>6. \A s \in SUBSET D : g0[s] = IF s = {} THEN 0 ELSE f[Chosen(s)] + g0[s \ {Chosen(s)}]
  BY <1>5
<1>7. \A s \in SUBSET D : g0[s] \in Nat
  <2> DEFINE G == {s \in SUBSET D : g0[s] \in Nat}
  <2>1. {} \in G
    <3>1. {} \in SUBSET D /\ 0 \in Nat
      OBVIOUS
    <3>2. g0[{}] = 0
      BY <1>6, <3>1
    <3> QED
      BY <3>1, <3>2
  <2>2. ASSUME NEW s \in SUBSET D, s # {}, s \ {Chosen(s)} \in G
        PROVE  s \in G
    <3>1. Chosen(s) \in D /\ s \ {Chosen(s)} \in SUBSET D
      BY <2>2, ChosenFrom
    <3>2. g0[s] = f[Chosen(s)] + g0[s \ {Chosen(s)}]
      BY <1>6, <2>2
    <3>3. f[Chosen(s)] \in Nat /\ g0[s \ {Chosen(s)}] \in Nat
      BY <2>2, <3>1
    <3>4. g0[s] \in Nat
      BY <3>2, <3>3
    <3> QED
      BY <3>4
  <2> HIDE DEF G
  <2>3. SUBSET D \subseteq G
    BY <2>1, <2>2, SubsetInduction
  <2> QED
    BY <2>3 DEF G
<1>8. g0 \in [SUBSET D -> Nat]
  BY <1>5, <1>7
<1>9. Plus(f) = g0[D]
  BY PlusUnfolds DEF g0
<1> QED
  BY <1>6, <1>8, <1>9 DEF PartialSums

LEMMA PlusNat ==
  ASSUME NEW D, IsFiniteSet(D), NEW f \in [D -> Nat]
  PROVE  Plus(f) \in Nat
<1>1. PICK g \in [SUBSET D -> Nat] : Plus(f) = g[D]
  BY PlusByElements
<1>2. D \in SUBSET D
  OBVIOUS
<1> QED
  BY <1>1, <1>2

\* A sum grows with what is summed up.
LEMMA PlusGrows ==
  ASSUME NEW D, IsFiniteSet(D), NEW f \in [D -> Nat], NEW h \in [D -> Nat],
         \A d \in D : f[d] <= h[d]
  PROVE  Plus(f) <= Plus(h)
<1>1. PICK g1 \in [SUBSET D -> Nat] : PartialSums(g1, D, f) /\ Plus(f) = g1[D]
  BY PlusByElements
<1>2. PICK g2 \in [SUBSET D -> Nat] : PartialSums(g2, D, h) /\ Plus(h) = g2[D]
  BY PlusByElements
<1> DEFINE G == {s \in SUBSET D : g1[s] <= g2[s]}
<1>3. {} \in G
  BY <1>1, <1>2 DEF PartialSums
<1>4. ASSUME NEW s \in SUBSET D, s # {}, s \ {Chosen(s)} \in G
      PROVE  s \in G
  <2>1. Chosen(s) \in D /\ s \ {Chosen(s)} \in SUBSET D
    BY <1>4, ChosenFrom
  <2>2. /\ f[Chosen(s)] \in Nat /\ h[Chosen(s)] \in Nat /\ f[Chosen(s)] <= h[Chosen(s)]
        /\ g1[s \ {Chosen(s)}] \in Nat /\ g2[s \ {Chosen(s)}] \in Nat
        /\ g1[s \ {Chosen(s)}] <= g2[s \ {Chosen(s)}]
    BY <1>4, <2>1
  <2>3. /\ g1[s] = f[Chosen(s)] + g1[s \ {Chosen(s)}]
        /\ g2[s] = h[Chosen(s)] + g2[s \ {Chosen(s)}]
    BY <1>1, <1>2, <1>4 DEF PartialSums
  <2>4. g1[s] <= g2[s]
    BY <2>2, <2>3
  <2> QED
    BY <2>4
<1> HIDE DEF G
<1>5. SUBSET D \subseteq G
  BY <1>3, <1>4, SubsetInduction
<1> QED
  BY <1>1, <1>2, <1>5 DEF G

\* No summand is more than the sum.
LEMMA PlusAtLeast ==
  ASSUME NEW D, IsFiniteSet(D), NEW f \in [D -> Nat], NEW d \in D
  PROVE  f[d] <= Plus(f)
<1>1. PICK g \in [SUBSET D -> Nat] : PartialSums(g, D, f) /\ Plus(f) = g[D]
  BY PlusByElements
<1> DEFINE G == {s \in SUBSET D : d \in s => f[d] <= g[s]}
<1>2. {} \in G
  OBVIOUS
<1>3. ASSUME NEW s \in SUBSET D, s # {}, s \ {Chosen(s)} \in G
      PROVE  s \in G
  <2>1. Chosen(s) \in D /\ s \ {Chosen(s)} \in SUBSET D
    BY <1>3, ChosenFrom
  <2>2. /\ f[Chosen(s)] \in Nat /\ f[d] \in Nat /\ g[s \ {Chosen(s)}] \in Nat
        /\ g[s] = f[Chosen(s)] + g[s \ {Chosen(s)}]
    BY <1>1, <1>3, <2>1 DEF PartialSums
  <2>3. CASE d = Chosen(s)
    <3>1. f[d] <= g[s]
      BY <2>2, <2>3
    <3> QED
      BY <3>1
  <2>4. CASE d # Chosen(s)
    <3>1. d \in s => f[d] <= g[s \ {Chosen(s)}]
      BY <1>3, <2>4
    <3>2. d \in s => f[d] <= g[s]
      BY <2>2, <3>1
    <3> QED
      BY <3>2
  <2> QED
    BY <2>3, <2>4
<1> HIDE DEF G
<1>4. SUBSET D \subseteq G
  BY <1>2, <1>3, SubsetInduction
<1> QED
  BY <1>1, <1>4 DEF G

\* It does not matter which element is taken first.
LEMMA AnyElement ==
  ASSUME NEW D, IsFiniteSet(D), NEW f \in [D -> Nat], NEW g \in [SUBSET D -> Nat],
         PartialSums(g, D, f)
  PROVE  \A s \in SUBSET D : \A d \in s : g[s] = f[d] + g[s \ {d}]
<1> DEFINE Any(s) == \A d \in s : g[s] = f[d] + g[s \ {d}]
           T == {n \in Nat : \A s \in SUBSET D : Cardinality(s) <= n => Any(s)}
<1>1. ASSUME NEW s \in SUBSET D, NEW d \in s
      PROVE  /\ s \ {d} \in SUBSET D /\ Cardinality(s) \in Nat \ {0}
             /\ Cardinality(s \ {d}) = Cardinality(s) - 1
    <2>1. IsFiniteSet(s)
      BY FS_Subset
    <2> QED
      BY <2>1, FS_CardinalityType, FS_EmptySet, FS_RemoveElement
<1>2. 0 \in T
  <2>1. ASSUME NEW s \in SUBSET D, NEW d \in s
        PROVE  ~ (Cardinality(s) <= 0)
    <3>1. Cardinality(s) \in Nat \ {0}
      BY <1>1
    <3> QED
      BY <3>1
  <2> QED
    BY <2>1
<1>3. ASSUME NEW n \in T
      PROVE  n + 1 \in T
  <2> SUFFICES ASSUME NEW s \in SUBSET D, Cardinality(s) <= n + 1, NEW d \in s
               PROVE  g[s] = f[d] + g[s \ {d}]
    OBVIOUS
  <2> DEFINE c == Chosen(s)
  <2>1. c \in s /\ g[s] = f[c] + g[s \ {c}]
    BY ChosenFrom DEF PartialSums
  <2> HIDE DEF c
  <2>2. CASE d = c
    BY <2>1, <2>2
  <2>3. CASE d # c
    <3>1. s \ {c} \in SUBSET D /\ s \ {d} \in SUBSET D
          /\ Cardinality(s \ {c}) <= n /\ Cardinality(s \ {d}) <= n
      BY <1>1, <2>1
    <3>2. g[s \ {c}] = f[d] + g[(s \ {c}) \ {d}]
      BY <2>3, <3>1
    <3>3. g[s \ {d}] = f[c] + g[(s \ {d}) \ {c}]
      BY <2>1, <2>3, <3>1
    <3>4. PICK r \in SUBSET D : r = (s \ {c}) \ {d} /\ r = (s \ {d}) \ {c}
      OBVIOUS
    <3>5. f[c] \in Nat /\ f[d] \in Nat /\ g[r] \in Nat
      BY <2>1, <3>4
    <3>6. g[s] = f[c] + (f[d] + g[r])
      BY <2>1, <3>2, <3>4
    <3>7. g[s \ {d}] = f[c] + g[r]
      BY <3>3, <3>4
    <3>8. f[c] + (f[d] + g[r]) = f[d] + (f[c] + g[r])
      BY <3>5
    <3> QED
      BY <3>6, <3>7, <3>8
  <2> QED
    BY <2>2, <2>3
<1>4. T \in SUBSET Nat
  OBVIOUS
<1> HIDE DEF T
<1>5. T = Nat
  BY <1>2, <1>3, <1>4, NatSets
<1> USE DEF T
<1>6. ASSUME NEW s \in SUBSET D
      PROVE  Any(s)
  <2>1. Cardinality(s) \in Nat
    BY FS_Subset, FS_CardinalityType
  <2> QED
    BY <1>5, <2>1
<1> QED
  BY <1>6

Sums(g, D, f) == f \in [D -> Nat] /\ g \in [SUBSET D -> Nat] /\ PartialSums(g, D, f)

\* Partial sums of the same summands are the same.
LEMMA SumsAgree ==
  ASSUME NEW D, NEW f, NEW g, Sums(g, D, f), IsFiniteSet(D),
         NEW E, NEW h, NEW k, Sums(k, E, h),
         NEW C, C \subseteq D, C \subseteq E, \A d \in C : f[d] = h[d]
  PROVE  g[C] = k[C]
<1> DEFINE G == {s \in SUBSET C : g[s] = k[s]}
<1> USE DEF Sums
<1>1. IsFiniteSet(C)
  BY FS_Subset
<1>2. {} \in G
  BY DEF PartialSums
<1>3. ASSUME NEW s \in SUBSET C, s # {}, s \ {Chosen(s)} \in G
      PROVE  s \in G
  <2>1. Chosen(s) \in C
    BY <1>1, <1>3, ChosenFrom
  <2>2. s \in SUBSET D /\ s \in SUBSET E
    OBVIOUS
  <2>3. g[s] = f[Chosen(s)] + g[s \ {Chosen(s)}] /\ k[s] = h[Chosen(s)] + k[s \ {Chosen(s)}]
    BY <1>3, <2>2 DEF PartialSums
  <2> QED
    BY <1>3, <2>1, <2>3
<1> HIDE DEF G
<1>4. SUBSET C \subseteq G
  BY <1>1, <1>2, <1>3, SubsetInduction
<1> QED
  BY <1>4 DEF G

Over(f, s) == Plus([x \in s |-> f[x]])

LEMMA SumOver ==
  ASSUME NEW D, IsFiniteSet(D), NEW f \in [D -> Nat]
  PROVE  /\ Over(f, D) = Plus(f) /\ Over(f, {}) = 0
         /\ \A s \in SUBSET D : Over(f, s) \in Nat
         /\ \A s \in SUBSET D : \A d \in s : Over(f, s) = f[d] + Over(f, s \ {d})
<1>1. PICK g \in [SUBSET D -> Nat] : PartialSums(g, D, f) /\ Plus(f) = g[D]
  BY PlusByElements
<1>2. ASSUME NEW s \in SUBSET D
      PROVE  Over(f, s) = g[s]
  <2> DEFINE h == [x \in s |-> f[x]]
  <2>1. h \in [s -> Nat] /\ \A d \in s : f[d] = h[d]
    OBVIOUS
  <2>2. Over(f, s) = Plus(h)
    BY DEF Over
  <2> HIDE DEF h
  <2>3. IsFiniteSet(s)
    BY FS_Subset
  <2>4. PICK k \in [SUBSET s -> Nat] : PartialSums(k, s, h) /\ Plus(h) = k[s]
    BY <2>1, <2>3, PlusByElements
  <2>5. Sums(g, D, f) /\ Sums(k, s, h)
    BY <1>1, <2>1, <2>4 DEF Sums
  <2>6. g[s] = k[s]
    BY <2>1, <2>5, SumsAgree
  <2> QED
    BY <2>2, <2>4, <2>6
<1>3. {} \in SUBSET D /\ D \in SUBSET D
  OBVIOUS
<1>4. ASSUME NEW s \in SUBSET D, NEW d \in s
      PROVE  Over(f, s) = f[d] + Over(f, s \ {d})
  <2>1. Over(f, s) = g[s] /\ Over(f, s \ {d}) = g[s \ {d}]
    BY <1>2
  <2>2. g[s] = f[d] + g[s \ {d}]
    BY <1>1, AnyElement
  <2> QED
    BY <2>1, <2>2
<1> QED
  BY <1>1, <1>2, <1>3, <1>4 DEF PartialSums

LEMMA PlusScaled ==
  ASSUME NEW D, IsFiniteSet(D), NEW f \in [D -> Nat], NEW h \in [D -> Nat], NEW k \in Nat,
         \A d \in D : f[d] = k * h[d]
  PROVE  Plus(f) = k * Plus(h)
<1> DEFINE G == {s \in SUBSET D : Over(f, s) = k * Over(h, s)}
<1>1. {} \in G
  BY SumOver
<1>2. ASSUME NEW s \in SUBSET D, s # {}, s \ {Chosen(s)} \in G
      PROVE  s \in G
  <2> DEFINE c == Chosen(s)
  <2>1. c \in s /\ c \in D /\ s \ {c} \in SUBSET D
    BY <1>2, ChosenFrom
  <2> HIDE DEF c
  <2>2. Over(f, s) = f[c] + Over(f, s \ {c}) /\ Over(h, s) = h[c] + Over(h, s \ {c})
    BY <2>1, SumOver
  <2>3. Over(f, s \ {c}) = k * Over(h, s \ {c}) /\ f[c] = k * h[c]
    BY <1>2, <2>1 DEF c
  <2>4. h[c] \in Nat /\ Over(h, s \ {c}) \in Nat
    BY <2>1, SumOver
  <2>5. \A a, b \in Nat : k * a + k * b = k * (a + b)
    OBVIOUS
  <2> QED
    BY <2>2, <2>3, <2>4, <2>5
<1> HIDE DEF G
<1>3. SUBSET D \subseteq G
  BY <1>1, <1>2, SubsetInduction
<1> QED
  BY <1>3, SumOver DEF G

LEMMA PlusOnes ==
  ASSUME NEW D, IsFiniteSet(D)
  PROVE  Plus([d \in D |-> 1]) = Cardinality(D)
<1> DEFINE f == [d \in D |-> 1]
           G == {s \in SUBSET D : Over(f, s) = Cardinality(s)}
<1>1. f \in [D -> Nat] /\ \A d \in D : f[d] = 1
  OBVIOUS
<1> HIDE DEF f
<1>2. {} \in G
  BY <1>1, SumOver, FS_EmptySet
<1>3. ASSUME NEW s \in SUBSET D, s # {}, s \ {Chosen(s)} \in G
      PROVE  s \in G
  <2>1. /\ Chosen(s) \in s /\ Chosen(s) \in D /\ Cardinality(s) \in Nat \ {0}
        /\ Cardinality(s \ {Chosen(s)}) = Cardinality(s) - 1
    BY <1>3, ChosenFrom
  <2>2. Over(f, s) = f[Chosen(s)] + Over(f, s \ {Chosen(s)})
    BY <1>1, <2>1, SumOver
  <2> QED
    BY <1>1, <1>3, <2>1, <2>2
<1> HIDE DEF G
<1>4. SUBSET D \subseteq G
  BY <1>2, <1>3, SubsetInduction
<1>5. Over(f, D) = Cardinality(D) /\ Over(f, D) = Plus(f)
  BY <1>1, <1>4, SumOver DEF G
<1> QED
  BY <1>5 DEF f

\* A sum over all, and a sum over a set of which one element is taken out.
LEMMA SumWhole ==
  ASSUME NEW D, IsFiniteSet(D), NEW f \in [D -> Nat]
  PROVE  Over(f, D) = Plus(f)
BY SumOver, Zenon

LEMMA SumTake ==
  ASSUME NEW D, IsFiniteSet(D), NEW f \in [D -> Nat],
         NEW s \in SUBSET D, NEW d \in s
  PROVE  /\ Over(f, s) = f[d] + Over(f, s \ {d})
         /\ Over(f, s) \in Nat /\ Over(f, s \ {d}) \in Nat
<1>1. s \ {d} \in SUBSET D
  OBVIOUS
<1>2. \A r \in SUBSET D : Over(f, r) \in Nat
  BY SumOver, Zenon
<1>3. \A r \in SUBSET D : \A e \in r : Over(f, r) = f[e] + Over(f, r \ {e})
  BY SumOver, Zenon
<1> QED
  BY <1>1, <1>2, <1>3, Zenon

\* A sum may be taken part by part.
LEMMA PlusByParts ==
  ASSUME NEW D, IsFiniteSet(D), NEW f \in [D -> Nat],
         NEW K, IsFiniteSet(K), NEW key \in [D -> K]
  PROVE  Plus(f) = Plus([k \in K |-> Over(f, {d \in D : key[d] = k})])
<1> DEFINE Part(s, k) == {d \in s : key[d] = k}
           Parts(s) == [k \in K |-> Over(f, Part(s, k))]
           G == {s \in SUBSET D : Over(f, s) = Plus(Parts(s))}
<1>1. ASSUME NEW s \in SUBSET D
      PROVE  Parts(s) \in [K -> Nat]
  <2>1. \A k \in K : Part(s, k) \in SUBSET D
    OBVIOUS
  <2> QED
    BY <2>1, SumOver
<1>2. {} \in G
  <2>1. \A k \in K : Parts({})[k] = 0 * Parts({})[k]
    <3>1. \A k \in K : Part({}, k) = {}
      OBVIOUS
    <3> QED
      BY <3>1, SumOver
  <2>2. Parts({}) \in [K -> Nat]
    BY <1>1
  <2> HIDE DEF Parts
  <2>3. Plus(Parts({})) = 0 * Plus(Parts({})) /\ Plus(Parts({})) \in Nat
    BY <2>1, <2>2, PlusScaled, PlusNat
  <2> QED
    BY <2>3, SumOver
<1>3. ASSUME NEW s \in SUBSET D, s # {}, s \ {Chosen(s)} \in G
      PROVE  s \in G
  <2> DEFINE c == Chosen(s)
             t == s \ {c}
             k0 == key[c]
  <2>1. c \in s /\ c \in D /\ k0 \in K /\ t \in SUBSET D
    BY <1>3, ChosenFrom
  <2> HIDE DEF c
  <2>2. PICK a \in [K -> Nat] : a = Parts(s)
    BY <1>1
  <2>3. PICK b \in [K -> Nat] : b = Parts(t)
    BY <1>1, <2>1
  <2>4. a[k0] = f[c] + b[k0]
    <3>1. PICK r \in SUBSET D : r = Part(s, k0)
      OBVIOUS
    <3>2. c \in r /\ Part(t, k0) = r \ {c}
      BY <2>1, <3>1
    <3>3. Over(f, r) = f[c] + Over(f, r \ {c})
      BY <3>2, SumOver
    <3> QED
      BY <2>1, <2>2, <2>3, <3>1, <3>2, <3>3
  <2>5. [k \in K \ {k0} |-> a[k]] = [k \in K \ {k0} |-> b[k]]
    <3>1. \A k \in K \ {k0} : Part(s, k) = Part(t, k)
      OBVIOUS
    <3> QED
      BY <2>2, <2>3, <3>1
  <2>6. /\ Plus(a) = a[k0] + Over(a, K \ {k0}) /\ Plus(b) = b[k0] + Over(b, K \ {k0})
        /\ Over(b, K \ {k0}) \in Nat /\ Over(a, K \ {k0}) = Over(b, K \ {k0})
    <3> DEFINE others == K \ {k0}
    <3>1. K \in SUBSET K /\ others \in SUBSET K /\ k0 \in K
      BY <2>1
    <3>2. Over(a, others) = Over(b, others)
      BY <2>5 DEF Over
    <3>3. Over(a, K) = a[k0] + Over(a, others) /\ Over(a, K) = Plus(a)
      BY <3>1, SumTake, SumWhole
    <3>4. Over(b, K) = b[k0] + Over(b, others) /\ Over(b, K) = Plus(b) /\ Over(b, others) \in Nat
      BY <3>1, SumTake, SumWhole
    <3> QED
      BY <3>2, <3>3, <3>4
  <2>7. Over(f, s) = f[c] + Over(f, t) /\ Over(f, t) = Plus(b)
    <3>1. Over(f, s) = f[c] + Over(f, t)
      BY <2>1, SumTake
    <3> QED
      BY <1>3, <2>3, <3>1 DEF c
  <2>8. f[c] \in Nat /\ b[k0] \in Nat
    BY <2>1
  <2>9. Over(f, s) = Plus(a)
    BY <2>4, <2>6, <2>7, <2>8
  <2> QED
    BY <2>2, <2>9
<1> HIDE DEF G
<1>4. SUBSET D \subseteq G
  BY <1>2, <1>3, SubsetInduction
<1>5. Over(f, D) = Plus(Parts(D)) /\ Over(f, D) = Plus(f)
  BY <1>4, SumOver DEF G
<1> QED
  BY <1>5

-----------------------------------------------------------------------------
(* What reached an exporter, and what it is counted for.                   *)

LEMMA TopologyFinite ==
  ASSUME topology \in Topologies
  PROVE  /\ \A p \in Pipelines :
              /\ IsFiniteSet(DOMAIN ReceiversOf[p])
              /\ \A i \in DOMAIN ReceiversOf[p] : ReceiversOf[p][i] \in Receivers
              /\ IsFiniteSet(DOMAIN ExportersOf[p])
              /\ \A i \in DOMAIN ExportersOf[p] : ExportersOf[p][i] \in Exporters
         /\ IsFiniteSet(Uses)
         /\ \A x : IsFiniteSet(Users(x)) /\ \A u \in Users(x) : u[1] \in Pipelines
<1>1. /\ ReceiversOf \in [Pipelines -> Seq(Receivers)]
      /\ ExportersOf \in [Pipelines -> Seq(Exporters)]
  BY TopologyAssumption DEF ReceiversOf, ExportersOf
<1>2. ASSUME NEW S, NEW s \in Seq(S)
      PROVE  IsFiniteSet(DOMAIN s) /\ \A i \in DOMAIN s : s[i] \in S
  <2>1. Len(s) \in Nat /\ DOMAIN s = 1..Len(s)
    BY LenProperties
  <2> QED
    BY <2>1, FS_Interval, ElementOfSeq
<1>3. IsFiniteSet(Uses)
  <2> DEFINE Of(p) == {p} \X DOMAIN ExportersOf[p]
             Parts == {Of(p) : p \in Pipelines}
  <2>1. IsFiniteSet(Parts)
    <3> DEFINE f == [p \in Pipelines |-> Of(p)]
    <3>1. f \in Surjection(Pipelines, Parts)
      BY DEF Surjection
    <3> HIDE DEF f, Parts
    <3> QED
      BY <3>1, TopologyAssumption, FS_Surjection
  <2>2. ASSUME NEW P \in Parts
        PROVE  IsFiniteSet(P)
    <3>1. PICK p \in Pipelines : P = Of(p)
      OBVIOUS
    <3>2. IsFiniteSet(DOMAIN ExportersOf[p]) /\ IsFiniteSet({p})
      BY <1>1, <1>2, FS_Singleton
    <3> QED
      BY <3>1, <3>2, FS_Product
  <2> QED
    BY <2>1, <2>2, FS_UNION DEF Uses
<1>4. \A x : IsFiniteSet(Users(x)) /\ \A u \in Users(x) : u[1] \in Pipelines
  <2> SUFFICES ASSUME NEW x
               PROVE  IsFiniteSet(Users(x)) /\ \A u \in Users(x) : u[1] \in Pipelines
    OBVIOUS
  <2>1. Users(x) \in SUBSET Uses
    BY DEF Users
  <2>2. \A u \in Uses : u[1] \in Pipelines
    BY DEF Uses
  <2> QED
    BY <1>3, <2>1, <2>2, FS_Subset
<1> QED
  BY <1>1, <1>2, <1>3, <1>4

LEMMA InGrows ==
  ASSUME topology \in Topologies, NEW in \in Count(Receivers),
         NEW more \in Count(Receivers), \A r \in Receivers : in[r] <= more[r],
         NEW p \in Pipelines
  PROVE  In(p, in) \in Nat /\ In(p, more) \in Nat /\ In(p, in) <= In(p, more)
<1> DEFINE D == DOMAIN ReceiversOf[p]
           f == [i \in D |-> in[ReceiversOf[p][i]]]
           h == [i \in D |-> more[ReceiversOf[p][i]]]
<1>1. IsFiniteSet(D) /\ \A i \in D : ReceiversOf[p][i] \in Receivers
  BY TopologyFinite
<1>2. f \in [D -> Nat] /\ h \in [D -> Nat] /\ \A d \in D : f[d] <= h[d]
  BY <1>1 DEF Count
<1>3. In(p, in) = Plus(f) /\ In(p, more) = Plus(h)
  BY DEF In
<1> HIDE DEF D, f, h
<1> QED
  BY <1>1, <1>2, <1>3, PlusNat, PlusGrows

LEMMA TotalInGrows ==
  ASSUME topology \in Topologies, NEW in \in Count(Receivers),
         NEW more \in Count(Receivers), \A r \in Receivers : in[r] <= more[r],
         NEW x
  PROVE  /\ TotalIn(x, in) \in Nat /\ TotalIn(x, more) \in Nat
         /\ TotalIn(x, in) <= TotalIn(x, more)
<1> DEFINE f == [u \in Users(x) |-> In(u[1], in)]
           h == [u \in Users(x) |-> In(u[1], more)]
<1>1. IsFiniteSet(Users(x)) /\ \A u \in Users(x) : u[1] \in Pipelines
  BY TopologyFinite
<1>2. /\ f \in [Users(x) -> Nat] /\ h \in [Users(x) -> Nat]
      /\ \A u \in Users(x) : f[u] <= h[u]
  BY <1>1, InGrows
<1>3. TotalIn(x, in) = Plus(f) /\ TotalIn(x, more) = Plus(h)
  BY DEF TotalIn
<1> HIDE DEF f, h
<1> QED
  BY <1>1, <1>2, <1>3, PlusNat, PlusGrows

\* What the exporter's pending POST holds.
Pending(x) ==
  IF x = LogExporter /\ call # None THEN Len(call[1]) ELSE 0

\* Nothing is counted twice: what is counted for an exporter, and what its POST
\* will be counted for, has reached it.
Counted ==
  \A x \in Exporters : sent[x] + failed[x] + Pending(x) <= Reached(x)

\* A POST that the exporter waits for is on its way or being handled.
Posted ==
  /\ call # None => call[1] \in posts \/ call = ingest
  /\ (ingest # None) = mu

Shape ==
  /\ started \in 1..MaxStarts /\ up \in BOOLEAN
  /\ ~ up => started < MaxStarts
  /\ poll \in {None} \union {Some(h) : h \in Handlers}

CountInv == Shape /\ Posted /\ Counted

LEMMA PendingNat ==
  ASSUME Typed
  PROVE  /\ \A x : Pending(x) \in Nat
         /\ call # None => call[1] \in Batch /\ call = Some(call[1])
         /\ ingest # None => ingest[1] \in Batch /\ ingest = Some(ingest[1])
<1>1. call # None => call[1] \in Batch /\ call = Some(call[1])
  BY DEF Typed, Some
<1>2. ingest # None => ingest[1] \in Batch /\ ingest = Some(ingest[1])
  BY DEF Typed, Some
<1>3. \A x : Pending(x) \in Nat
  BY <1>1, BatchLength DEF Pending
<1> QED
  BY <1>1, <1>2, <1>3

LEMMA ReachedNat ==
  ASSUME Typed
  PROVE  \A x : Reached(x) \in Nat
BY TotalInGrows DEF Typed, Count, Reached

\* Steps that leave the counters, the POSTs and the mutex alone.
LEMMA CountedKept ==
  ASSUME Posted, Counted, UNCHANGED <<topology, accepted, sent, failed>>, PostsSame,
         UNCHANGED mu
  PROVE  Posted' /\ Counted'
<1>1. \A x : Reached(x)' = Reached(x)
  BY DEF Reached, TotalIn, In, Users, Uses, ReceiversOf, ExportersOf
<1>2. \A x : Pending(x)' = Pending(x)
  BY DEF PostsSame, Pending
<1> QED
  BY <1>1, <1>2 DEF PostsSame, Posted, Counted

LEMMA CountedInit == Init => CountInv
<1> SUFFICES ASSUME Init
             PROVE  CountInv
  OBVIOUS
<1>1. Typed
  BY TypedInit
<1>2. Shape
  BY TopologyAssumption DEF Init, Shape
<1>3. Posted
  BY DEF Init, BufferInit, Posted
<1>4. Counted
  <2>1. \A x \in Exporters : sent[x] = 0 /\ failed[x] = 0 /\ Pending(x) = 0
    BY DEF Init, Pending
  <2> QED
    BY <1>1, <2>1, ReachedNat DEF Counted
<1> QED
  BY <1>2, <1>3, <1>4 DEF CountInv

\* The collector's steps.
LEMMA CountedQuiet ==
  ASSUME Typed, Typed', CountInv, Quiet
  PROVE  Posted' /\ Counted'
<1> USE DEF CountInv
<1>1. CASE Accept
  <2>1. PICK r \in Receivers :
          Collector([accepted EXCEPT ![r] = @ + 1], sent, failed)
    <3>1. PICK r \in UNION {Range(ReceiversOf[p]) : p \in Pipelines} :
            Collector([accepted EXCEPT ![r] = @ + 1], sent, failed)
      BY <1>1 DEF Accept
    <3>2. r \in Receivers
      BY TopologyFinite DEF Typed, Range
    <3> QED
      BY <3>1, <3>2
  <2>2. /\ accepted' = [accepted EXCEPT ![r] = accepted[r] + 1]
        /\ UNCHANGED <<mu, topology, sent, failed, posts, call, ingest>>
    BY <2>1 DEF Collector, bufferVars
  <2>3. \A v \in Receivers : accepted[v] <= accepted'[v]
    BY <2>2 DEF Typed, Count
  <2>4. PICK a \in Count(Receivers), b \in Count(Receivers) :
          a = accepted /\ b = accepted'
    BY DEF Typed
  <2>5. \A x : TotalIn(x, a) \in Nat /\ TotalIn(x, b) \in Nat
               /\ TotalIn(x, a) <= TotalIn(x, b)
    BY <2>3, <2>4, TotalInGrows DEF Typed
  <2>6. ASSUME NEW x \in Exporters
        PROVE  Reached(x) \in Nat /\ Reached(x)' \in Nat /\ Reached(x) <= Reached(x)'
    <3>1. TotalIn(x, b) = Reached(x)'
      BY <2>2, <2>4
         DEF Reached, TotalIn, In, Users, Uses, ReceiversOf, ExportersOf
    <3>2. TotalIn(x, a) = Reached(x)
      BY <2>4 DEF Reached
    <3> QED
      BY <2>5, <3>1, <3>2
  <2>7. Counted'
    <3> SUFFICES ASSUME NEW x \in Exporters
                 PROVE  sent[x] + failed[x] + Pending(x) <= Reached(x)'
      BY <2>2 DEF Counted, Pending
    <3>1. sent[x] \in Nat /\ failed[x] \in Nat /\ Pending(x) \in Nat
      BY PendingNat DEF Typed, Count
    <3> QED
      BY <2>6, <3>1 DEF Counted
  <2> QED
    BY <2>2, <2>7 DEF Posted
<1>2. CASE Export
  <2>1. PICK x \in Exporters \ {LogExporter} :
          /\ Waiting(x) > 0
          /\ \/ Collector(accepted, [sent EXCEPT ![x] = @ + 1], failed)
             \/ Collector(accepted, sent, [failed EXCEPT ![x] = @ + 1])
    BY <1>2 DEF Export
  <2>2. UNCHANGED <<mu, topology, accepted, posts, call, ingest>>
    BY <2>1 DEF Collector, bufferVars
  <2>3. \A y : Reached(y)' = Reached(y) /\ Pending(y)' = Pending(y)
    BY <2>2 DEF Pending, Reached, TotalIn, In, Users, Uses, ReceiversOf, ExportersOf
  <2>4. ASSUME NEW y \in Exporters
        PROVE  sent'[y] + failed'[y] + Pending(y) <= Reached(y)
    <3>1. /\ sent[y] \in Nat /\ failed[y] \in Nat /\ Pending(y) \in Nat
          /\ Reached(y) \in Nat /\ sent[y] + failed[y] + Pending(y) <= Reached(y)
      BY PendingNat, ReachedNat DEF Typed, Count, Counted
    <3>2. CASE y = x
      <4>1. Pending(y) = 0 /\ Reached(y) - sent[y] - failed[y] > 0
        BY <2>1, <3>2 DEF Pending, Waiting
      <4>2. sent'[y] + failed'[y] = sent[y] + failed[y] + 1
        BY <2>1, <3>1, <3>2 DEF Collector, Typed, Count
      <4> QED
        BY <3>1, <4>1, <4>2
    <3>3. CASE y # x
      BY <2>1, <3>1, <3>3 DEF Collector, Typed, Count
    <3> QED
      BY <3>2, <3>3
  <2> QED
    BY <2>2, <2>3, <2>4 DEF Posted, Counted
<1>3. CASE Post
  <2> DEFINE n == Waiting(LogExporter)
  <2>1. PICK b \in Batch :
          /\ call = None /\ call' = Some(b) /\ posts' = posts \union {b}
          /\ Waiting(LogExporter) > 0 /\ b = [i \in 1..n |-> Reached(LogExporter) - n + i]
    BY <1>3 DEF Post
  <2>2. UNCHANGED <<mu, topology, accepted, sent, failed, ingest>>
    BY <1>3 DEF Post, bufferVars
  <2>3. call'[1] = b /\ call' # None
    BY <2>1 DEF Some, None
  <2>4. Posted'
    BY <2>1, <2>2, <2>3 DEF Posted
  <2>5. /\ sent[LogExporter] \in Nat /\ failed[LogExporter] \in Nat
        /\ Reached(LogExporter) \in Nat
    BY ReachedNat, TopologyAssumption DEF Typed, Count
  <2>6. Len(b) = Reached(LogExporter) - sent[LogExporter] - failed[LogExporter]
    <3>1. n \in Nat
      BY <2>1, <2>5 DEF Waiting
    <3>2. b \in Seq(Entry) /\ DOMAIN b = 1..n
      BY <2>1, BufferAssumption
    <3>3. Len(b) \in Nat /\ 1..Len(b) = 1..n
      BY <3>2, LenProperties
    <3>4. Len(b) = n
      BY <3>1, <3>3
    <3> QED
      BY <3>4 DEF Waiting
  <2>7. ASSUME NEW x \in Exporters
        PROVE  sent[x] + failed[x] + Pending(x)' <= Reached(x)
    <3>1. CASE x = LogExporter
      <4>1. Pending(x)' = Len(b)
        BY <2>3, <3>1 DEF Pending
      <4> QED
        BY <2>5, <2>6, <3>1, <4>1
    <3>2. CASE x # LogExporter
      BY <3>2 DEF Pending, Counted
    <3> QED
      BY <3>1, <3>2
  <2>8. \A x : Reached(x)' = Reached(x)
    BY <2>2 DEF Reached, TotalIn, In, Users, Uses, ReceiversOf, ExportersOf
  <2> QED
    BY <2>2, <2>4, <2>7, <2>8 DEF Counted
<1>4. CASE BeginIngest
  <2>1. PICK b \in posts :
          ~ mu /\ mu' = TRUE /\ ingest' = Some(b) /\ posts' = posts \ {b}
    BY <1>4 DEF BeginIngest, Lock
  <2>2. UNCHANGED <<topology, accepted, sent, failed, call>>
    BY <1>4 DEF BeginIngest
  <2>3. Posted'
    <3>1. ingest' # None /\ (call # ingest \/ call = None)
      BY <2>1 DEF Posted, Some, None
    <3>2. call # None => call[1] \in posts /\ call = Some(call[1])
      BY <2>1, PendingNat DEF Posted
    <3> QED
      BY <2>1, <2>2, <3>2 DEF Posted, Some, None
  <2>4. Counted'
    <3>1. \A x : Reached(x)' = Reached(x) /\ Pending(x)' = Pending(x)
      BY <2>2 DEF Pending, Reached, TotalIn, In, Users, Uses, ReceiversOf,
                  ExportersOf
    <3> QED
      BY <2>2, <3>1 DEF Counted
  <2> QED
    BY <2>3, <2>4
<1>5. CASE PutOne
  BY <1>5, CountedKept DEF PutOne, Put, CountersSame, PostsSame
<1>6. CASE EndIngest
  <2>1. UNCHANGED <<topology, accepted, failed, posts>> /\ ingest' = None /\ mu' = FALSE
    BY <1>6 DEF EndIngest, Unlock
  <2>2. \A x : Reached(x)' = Reached(x)
    BY <2>1 DEF Reached, TotalIn, In, Users, Uses, ReceiversOf, ExportersOf
  <2>3. CASE call = ingest
    <3>1. call # None /\ call' = None
          /\ sent' = [sent EXCEPT ![LogExporter] = @ + Len(call[1])]
      BY <1>6, <2>3 DEF EndIngest, Unlock, Posted
    <3>2. ASSUME NEW x \in Exporters
          PROVE  sent'[x] + failed[x] + Pending(x)' <= Reached(x)
      <4>1. /\ sent[x] \in Nat /\ failed[x] \in Nat /\ Pending(x) \in Nat
            /\ Reached(x) \in Nat /\ sent[x] + failed[x] + Pending(x) <= Reached(x)
        BY PendingNat, ReachedNat DEF Typed, Count, Counted
      <4>2. Pending(x)' = 0
        BY <3>1 DEF Pending
      <4>3. sent'[x] = sent[x] + Pending(x)
        BY <3>1, <4>1, TopologyAssumption DEF Pending, Typed, Count
      <4> QED
        BY <4>1, <4>2, <4>3
    <3> QED
      BY <2>1, <2>2, <3>1, <3>2 DEF Posted, Counted
  <2>4. CASE call # ingest
    <3>1. UNCHANGED <<sent, call>>
      BY <1>6, <2>4 DEF EndIngest
    <3> QED
      BY <2>1, <2>2, <2>4, <3>1 DEF Posted, Counted, Pending
  <2> QED
    BY <2>3, <2>4
<1>7. CASE PostTimeout
  <2>1. /\ UNCHANGED <<mu, topology, accepted, sent, posts, ingest>>
        /\ call # None /\ call' = None
        /\ failed' = [failed EXCEPT ![LogExporter] = @ + Len(call[1])]
    BY <1>7 DEF PostTimeout, bufferVars
  <2>2. \A x : Reached(x)' = Reached(x)
    BY <2>1 DEF Reached, TotalIn, In, Users, Uses, ReceiversOf, ExportersOf
  <2>3. ASSUME NEW x \in Exporters
        PROVE  sent[x] + failed'[x] + Pending(x)' <= Reached(x)
    <3>1. /\ sent[x] \in Nat /\ failed[x] \in Nat /\ Pending(x) \in Nat
          /\ Reached(x) \in Nat /\ sent[x] + failed[x] + Pending(x) <= Reached(x)
      BY PendingNat, ReachedNat DEF Typed, Count, Counted
    <3>2. Pending(x)' = 0
      BY <2>1 DEF Pending
    <3>3. failed'[x] = failed[x] + Pending(x)
      BY <2>1, <3>1, TopologyAssumption DEF Pending, Typed, Count
    <3> QED
      BY <3>1, <3>2, <3>3
  <2> QED
    BY <2>1, <2>2, <2>3 DEF Posted, Counted
<1>8. CASE Logs
  BY <1>8, CountedKept DEF Logs, Clear, Snapshot, CountersSame, PostsSame
<1> QED
  BY <1>1, <1>2, <1>3, <1>4, <1>5, <1>6, <1>7, <1>8 DEF Quiet

LEMMA CountedCrash ==
  ASSUME Typed', Crash
  PROVE  Posted' /\ Counted'
<1>1. /\ call' = None /\ ingest' = None /\ mu' = FALSE
      /\ accepted' = [r \in Receivers |-> 0] /\ topology' = topology
      /\ \A x \in Exporters : sent'[x] = 0 /\ failed'[x] = 0
  BY DEF Crash, Reset
<1>2. topology \in Topologies
  BY <1>1 DEF Typed
<1>3. PICK b \in Count(Receivers) : b = accepted'
  BY <1>1 DEF Count
<1>4. ASSUME NEW x \in Exporters
      PROVE  Reached(x)' \in Nat /\ Pending(x)' = 0
  <2>1. TotalIn(x, b) \in Nat
    BY <1>2, TotalInGrows DEF Count
  <2>2. TotalIn(x, b) = Reached(x)'
    BY <1>1, <1>3
       DEF Reached, TotalIn, In, Users, Uses, ReceiversOf, ExportersOf
  <2> QED
    BY <1>1, <2>1, <2>2 DEF Pending
<1>5. Posted'
  BY <1>1 DEF Posted
<1>6. ASSUME NEW x \in Exporters
      PROVE  sent'[x] + failed'[x] + Pending(x)' <= Reached(x)'
  BY <1>1, <1>4
<1> QED
  BY <1>5, <1>6 DEF Counted

LEMMA ShapeStep ==
  ASSUME Shape, [Next]_vars
  PROVE  Shape'
<1> USE DEF Shape
<1>1. CASE Quiet /\ UNSEEN
  <2>1. UNCHANGED <<started, up, poll>>
    BY <1>1 DEF UNSEEN, Quiet, Accept, Export, Collector, Post, BeginIngest, PutOne,
                EndIngest, PostTimeout, Logs
  <2> QED
    BY <2>1
<1>2. ASSUME NEW h \in Handlers, Scrape(h) \/ ScrapeFails(h), UNSEEN
      PROVE  Shape'
  BY <1>2 DEF Scrape, ScrapeFails, Handle, UNSEEN
<1>3. CASE Crash \/ Start
  <2>1. CASE Crash
    BY <2>1 DEF Crash, UNSEEN
  <2>2. CASE Start
    <3>1. ~ up /\ up' = TRUE /\ started' = started + 1 /\ poll' = poll
      BY <2>2 DEF Start, UNSEEN
    <3>2. started' \in 1..MaxStarts
      BY <3>1, TopologyAssumption
    <3> QED
      BY <3>1, <3>2
  <2> QED
    BY <1>3, <2>1, <2>2
<1>4. CASE Tick
  <2>1. PICK h \in Handlers : poll' = Some(h) /\ Handle(h, <<Asked>>)
    BY <1>4 DEF Tick, Idle
  <2> QED
    BY <2>1 DEF Handle
<1>5. ASSUME NEW h \in Handlers, Reply(h)
      PROVE  Shape'
  BY <1>5 DEF Reply, Handle
<1>6. CASE Refused \/ GiveUp \/ Type \/ Key \/ UNCHANGED vars
  BY <1>6 DEF Refused, GiveUp, Type, Key, vars, extensionVars
<1> QED
  BY <1>1, <1>2, <1>3, <1>4, <1>5, <1>6 DEF Next, ExtensionStep, Quiet

LEMMA CountedStep ==
  ASSUME Typed, Typed', CountInv, [Next]_vars
  PROVE  CountInv'
<1>1. Shape'
  BY ShapeStep DEF CountInv
<1>2. CASE Quiet
  BY <1>1, <1>2, CountedQuiet DEF CountInv
<1>3. CASE Crash
  BY <1>1, <1>3, CountedCrash DEF CountInv
<1>4. CASE CountersSame /\ PostsSame /\ UNCHANGED mu
  BY <1>1, <1>4, CountedKept DEF CountersSame, CountInv
<1>5. CASE Start
  BY <1>1, <1>5, CountedKept DEF Start, bufferVars, PostsSame, CountInv
<1>6. ASSUME NEW h \in Handlers, Scrape(h) \/ ScrapeFails(h) \/ Reply(h)
      PROVE  CountersSame /\ PostsSame /\ UNCHANGED mu
  BY <1>6 DEF Scrape, ScrapeFails, Reply, Handle, CountersSame, PostsSame, bufferVars
<1>7. CASE Tick \/ Refused \/ GiveUp \/ Type \/ Key \/ UNCHANGED vars
  <2>1. CountersSame /\ PostsSame /\ UNCHANGED mu
    BY <1>7 DEF Tick, Handle, Refused, GiveUp, Type, Key, vars, extensionVars,
                CountersSame, PostsSame, bufferVars
  <2> QED
    BY <1>4, <2>1
<1> QED
  BY <1>2, <1>3, <1>4, <1>5, <1>6, <1>7 DEF Next, ExtensionStep, Quiet

\* Whatever is posted, given up, answered late or lost with the process, the
\* ring and the counters of the collector are in order: no exporter is counted
\* for more than what reached it (consumeLogs, the POST's handler).
THEOREM TypeCorrect == Spec => []TypeOK
<1>1. Spec => []Typed
  <2>1. IInv => Typed
    BY DEF IInv
  <2> QED
    BY <2>1, InvAlways, PTL
<1>2. Spec => []RingOK
  <2>1. Init => BufferInit
    BY DEF Init
  <2> QED
    BY <1>1, <2>1, BufferStep, RingAlways, PTL DEF Spec, BufferSpec
<1>3. Spec => []CountInv
  BY <1>1, CountedInit, CountedStep, PTL DEF Spec
<1>4. Typed /\ RingOK /\ CountInv => TypeOK
  <2> SUFFICES ASSUME Typed, RingOK, CountInv
               PROVE  TypeOK
    OBVIOUS
  <2>1. ASSUME NEW x \in Exporters
        PROVE  /\ sent[x] \in Nat /\ failed[x] \in Nat
               /\ sent[x] + failed[x] <= Reached(x)
    <3>1. sent[x] \in Nat /\ failed[x] \in Nat /\ Pending(x) \in Nat /\ Reached(x) \in Nat
      BY PendingNat, ReachedNat DEF Typed, Count
    <3> QED
      BY <3>1 DEF CountInv, Counted
  <2> QED
    BY <2>1 DEF CountInv, Shape, Posted, TypeOK
<1> QED
  BY <1>1, <1>2, <1>3, <1>4, PTL
-----------------------------------------------------------------------------
(* The shares of an idle pipeline.                                         *)

\* The fractions that are nothing.
Zero == [num : {0}, den : Nat \ {0}]

LEMMA FractionsUnfold ==
  ASSUME NEW f
  PROVE  SumFractions(f) = (CHOOSE iter : iter = [s \in SUBSET DOMAIN f |->
                      IF s = {} THEN [num |-> 0, den |-> 1]
                      ELSE AddFractions(f[Chosen(s)], iter[s \ {Chosen(s)}])])[DOMAIN f]
BY Zenon DEF SumFractions, FoldFunction, FoldFunctionOnSet, MapThenFoldSet, Chosen

LEMMA ZeroAdded ==
  ASSUME NEW f \in Zero, NEW g \in Zero
  PROVE  AddFractions(f, g) \in Zero
<1>1. f.den \in Nat \ {0} /\ g.den \in Nat \ {0} /\ f.num = 0 /\ g.num = 0
  BY DEF Zero
<1>2. f.den * g.den \in Nat \ {0}
  BY <1>1
<1>3. f.num * g.den + g.num * f.den = 0
  BY <1>1
<1> QED
  BY <1>2, <1>3 DEF AddFractions, Zero

\* Partial sums of fractions of a kind that adding does not leave.
FractionSums(g, D, f) ==
  /\ g[{}] = [num |-> 0, den |-> 1]
  /\ \A s \in SUBSET D : s # {} =>
       g[s] = AddFractions(f[Chosen(s)], g[s \ {Chosen(s)}])

Closed(V) ==
  [num |-> 0, den |-> 1] \in V /\ \A v, w \in V : AddFractions(v, w) \in V

ByElements(V, D, f) ==
  \E g \in [SUBSET D -> V] : FractionSums(g, D, f) /\ SumFractions(f) = g[D]

LEMMA FractionsByElements ==
  ASSUME NEW V, Closed(V), NEW D, IsFiniteSet(D), NEW f \in [D -> V]
  PROVE  ByElements(V, D, f)
<1> DEFINE b == [num |-> 0, den |-> 1]
           Eq(g) == g = [s \in SUBSET D |->
                      IF s = {} THEN b
                      ELSE AddFractions(f[Chosen(s)], g[s \ {Chosen(s)}])]
           H == [d \in D |-> [v \in V |-> AddFractions(f[d], v)]]
           g0 == CHOOSE g : Eq(g)
<1> USE DEF Closed
<1>1. H \in [D -> [V -> V]]
  OBVIOUS
<1>2. b \in V
  OBVIOUS
<1> HIDE DEF b
<1>3. PICK g \in [SUBSET D -> V] : Recursive(g, D, b, H)
  <2> HIDE DEF H
  <2> QED
    BY <1>1, <1>2, SubsetRecursion
<1>4. \A s \in SUBSET D : s # {} =>
        H[Chosen(s)][g[s \ {Chosen(s)}]] = AddFractions(f[Chosen(s)], g[s \ {Chosen(s)}])
  <2> SUFFICES ASSUME NEW s \in SUBSET D, s # {}
               PROVE  H[Chosen(s)][g[s \ {Chosen(s)}]]
                        = AddFractions(f[Chosen(s)], g[s \ {Chosen(s)}])
    OBVIOUS
  <2>1. Chosen(s) \in D /\ s \ {Chosen(s)} \in SUBSET D
    BY ChosenFrom
  <2> QED
    BY <2>1
<1>5. Eq(g)
  BY <1>3, <1>4 DEF Recursive
<1>6. Eq(g0)
  BY <1>5
<1> HIDE DEF g0
<1>7. \A s \in SUBSET D :
        g0[s] = IF s = {} THEN b ELSE AddFractions(f[Chosen(s)], g0[s \ {Chosen(s)}])
  BY <1>6
<1> DEFINE G == {s \in SUBSET D : g0[s] \in V}
<1>8. {} \in G
  BY <1>2, <1>7
<1>9. ASSUME NEW s \in SUBSET D, s # {}, s \ {Chosen(s)} \in G
      PROVE  s \in G
  <2>1. Chosen(s) \in D /\ s \ {Chosen(s)} \in SUBSET D
    BY <1>9, ChosenFrom
  <2>2. g0[s] = AddFractions(f[Chosen(s)], g0[s \ {Chosen(s)}])
    BY <1>7, <1>9
  <2>3. f[Chosen(s)] \in V /\ g0[s \ {Chosen(s)}] \in V
    BY <1>9, <2>1
  <2> QED
    BY <2>2, <2>3
<1> HIDE DEF G
<1>10. SUBSET D \subseteq G
  BY <1>8, <1>9, SubsetInduction
<1>11. SumFractions(f) = g0[D]
  BY FractionsUnfold DEF g0, b
<1>12. g0 \in [SUBSET D -> V]
  BY <1>6, <1>10 DEF G
<1>13. FractionSums(g0, D, f)
  BY <1>7 DEF FractionSums, b
<1> QED
  BY <1>11, <1>12, <1>13 DEF ByElements

LEMMA ZeroSum ==
  ASSUME NEW D, IsFiniteSet(D), NEW f \in [D -> Zero]
  PROVE  SumFractions(f) \in Zero
<1>1. [num |-> 0, den |-> 1] \in Zero
  BY DEF Zero
<1>2. Closed(Zero)
  BY <1>1, ZeroAdded DEF Closed
<1>3. PICK g \in [SUBSET D -> Zero] : SumFractions(f) = g[D]
  <2>1. ByElements(Zero, D, f)
    BY <1>2, FractionsByElements
  <2> QED
    BY <2>1 DEF ByElements
<1>4. D \in SUBSET D
  OBVIOUS
<1> QED
  BY <1>3, <1>4

LEMMA BusyTotal ==
  ASSUME topology \in Topologies, NEW in \in Count(Receivers), NEW x,
         NEW u \in Users(x), In(u[1], in) > 0
  PROVE  TotalIn(x, in) \in Nat /\ TotalIn(x, in) > 0
<1> DEFINE f == [v \in Users(x) |-> In(v[1], in)]
<1>1. IsFiniteSet(Users(x)) /\ \A v \in Users(x) : v[1] \in Pipelines
  BY TopologyFinite
<1>2. f \in [Users(x) -> Nat]
  BY <1>1, InGrows DEF Count
<1>3. TotalIn(x, in) = Plus(f) /\ f[u] = In(u[1], in)
  BY DEF TotalIn
<1> HIDE DEF f
<1>4. f[u] <= Plus(f) /\ Plus(f) \in Nat /\ f[u] \in Nat
  BY <1>1, <1>2, PlusAtLeast, PlusNat
<1> QED
  BY <1>3, <1>4

LEMMA IdleAttributed ==
  ASSUME topology \in Topologies, NEW in \in Count(Receivers), NEW p \in Pipelines,
         In(p, in) = 0, NEW count \in Count(Exporters),
         \A x \in Range(ExportersOf[p]) : \E u \in Users(x) : In(u[1], in) > 0
  PROVE  Attributed(p, in, count) = 0
<1> DEFINE D == DOMAIN ExportersOf[p]
           Part(x) == [num |-> count[x] * Share(p, x, in).num, den |-> Share(p, x, in).den]
           f == [i \in D |-> Part(ExportersOf[p][i])]
<1>1. IsFiniteSet(D) /\ \A i \in D : ExportersOf[p][i] \in Exporters
  BY TopologyFinite
<1>2. ASSUME NEW i \in D
      PROVE  Part(ExportersOf[p][i]) \in Zero
  <2> DEFINE x == ExportersOf[p][i]
  <2>1. PICK u \in Users(x) : In(u[1], in) > 0
    BY DEF Range
  <2>2. TotalIn(x, in) \in Nat /\ TotalIn(x, in) > 0
    BY <2>1, BusyTotal
  <2>3. Share(p, x, in) = [num |-> 0, den |-> TotalIn(x, in)]
    BY <2>2 DEF Share
  <2>4. count[x] * 0 = 0
    BY <1>1 DEF Count
  <2> QED
    BY <2>2, <2>3, <2>4 DEF Zero
<1>3. SumFractions(f) \in Zero
  <2>1. f \in [D -> Zero]
    BY <1>2
  <2> HIDE DEF f, D
  <2> QED
    BY <1>1, <2>1, ZeroSum
<1>4. Attributed(p, in, count)
        = (2 * SumFractions(f).num + SumFractions(f).den) \div (2 * SumFractions(f).den)
  BY DEF Attributed
<1> HIDE DEF f
<1>5. SumFractions(f).num = 0 /\ SumFractions(f).den \in Nat \ {0}
  BY <1>3 DEF Zero
<1>6. ASSUME NEW d \in Nat \ {0}
      PROVE  (2 * 0 + d) \div (2 * d) = 0
  OBVIOUS
<1> QED
  BY <1>4, <1>5, <1>6

\* A pipeline without traffic is shown without events as soon as every exporter
\* it uses has traffic from another (computePipelineSnapshots).
THEOREM IdleCorrect == Spec => []IdleShowsNothing
<1>1. Spec => []Typed
  <2>1. IInv => Typed
    BY DEF IInv
  <2> QED
    BY <2>1, InvAlways, PTL
<1>2. Typed => IdleShowsNothing
  <2> SUFFICES ASSUME Typed, NEW p \in Pipelines, In(p, accepted) = 0,
                      \A x \in Range(ExportersOf[p]) :
                        \E u \in Users(x) : In(u[1], accepted) > 0
               PROVE  /\ Attributed(p, accepted, sent) = 0
                      /\ Attributed(p, accepted, failed) = 0
    BY DEF IdleShowsNothing, computePipelineSnapshots
  <2> QED
    BY IdleAttributed DEF Typed
<1> QED
  BY <1>1, <1>2, PTL
-----------------------------------------------------------------------------
(* The shares of all pipelines add up: over a common denominator the share *)
(* of every use of an exporter is a whole number.                          *)

Fraction == [num : Nat, den : Nat \ {0}]

LEMMA TimesPositive ==
  ASSUME NEW a \in Nat \ {0}, NEW b \in Nat \ {0}
  PROVE  a * b \in Nat \ {0}
OBVIOUS

LEMMA CancelFactor ==
  ASSUME NEW d \in Nat \ {0}, NEW a \in Nat, NEW b \in Nat, d * a <= d * b
  PROVE  a <= b
<1> SUFFICES ASSUME b + 1 <= a
             PROVE  FALSE
  OBVIOUS
<1>1. PICK c \in Nat : a = b + 1 + c
  <2>1. a - (b + 1) \in Nat /\ a = b + 1 + (a - (b + 1))
    OBVIOUS
  <2> QED
    BY <2>1
<1>2. d * a = d * b + d + d * c
  BY <1>1
<1>3. d * c \in Nat /\ d * b \in Nat
  OBVIOUS
<1> QED
  BY <1>2, <1>3

LEMMA FractionAdded ==
  ASSUME NEW f \in Fraction, NEW g \in Fraction
  PROVE  /\ AddFractions(f, g) \in Fraction
         /\ \A M \in Nat : \A v, w \in Nat :
              f.num * M = v * f.den /\ g.num * M = w * g.den
              => AddFractions(f, g).num * M = (v + w) * AddFractions(f, g).den
<1>1. f.den \in Nat \ {0} /\ g.den \in Nat \ {0} /\ f.num \in Nat /\ g.num \in Nat
  BY DEF Fraction
<1>2. /\ AddFractions(f, g).num = f.num * g.den + g.num * f.den
      /\ AddFractions(f, g).den = f.den * g.den
      /\ AddFractions(f, g) = [num |-> f.num * g.den + g.num * f.den,
                               den |-> f.den * g.den]
  BY DEF AddFractions
<1>3. f.den * g.den \in Nat \ {0} /\ f.num * g.den + g.num * f.den \in Nat
  BY <1>1
<1>4. ASSUME NEW a \in Nat, NEW b \in Nat, NEW c \in Nat, NEW d \in Nat,
             NEW M \in Nat, NEW v \in Nat, NEW w \in Nat, a * M = v * b, c * M = w * d
      PROVE  (a * d + c * b) * M = (v + w) * (b * d)
  <2>1. (a * d + c * b) * M = (a * M) * d + (c * M) * b
    OBVIOUS
  <2>2. (a * M) * d + (c * M) * b = (v * b) * d + (w * d) * b
    BY <1>4
  <2>3. (v * b) * d + (w * d) * b = (v + w) * (b * d)
    OBVIOUS
  <2> QED
    BY <2>1, <2>2, <2>3
<1>5. AddFractions(f, g) \in Fraction
  BY <1>2, <1>3 DEF Fraction
<1>6. ASSUME NEW M \in Nat, NEW v \in Nat, NEW w \in Nat,
             f.num * M = v * f.den, g.num * M = w * g.den
      PROVE  AddFractions(f, g).num * M = (v + w) * AddFractions(f, g).den
  <2>1. (f.num * g.den + g.num * f.den) * M = (v + w) * (f.den * g.den)
    <3>1. PICK a \in Nat, b \in Nat, c \in Nat, d \in Nat :
            a = f.num /\ b = f.den /\ c = g.num /\ d = g.den
      BY <1>1
    <3>2. (a * d + c * b) * M = (v + w) * (b * d)
      <4>1. a * M = v * b /\ c * M = w * d
        BY <1>6, <3>1
      <4> HIDE <3>1
      <4> QED
        BY <1>4, <4>1
    <3> QED
      BY <3>1, <3>2
  <2> QED
    BY <1>2, <2>1
<1> QED
  BY <1>5, <1>6

\* Fractions that are whole numbers of M-ths add up as these do.
LEMMA FractionSum ==
  ASSUME NEW D, IsFiniteSet(D), NEW f \in [D -> Fraction], NEW M \in Nat,
         NEW w \in [D -> Nat], \A d \in D : f[d].num * M = w[d] * f[d].den
  PROVE  /\ SumFractions(f) \in Fraction
         /\ SumFractions(f).num * M = Plus(w) * SumFractions(f).den
<1>1. [num |-> 0, den |-> 1] \in Fraction
  BY DEF Fraction
<1>2. Closed(Fraction)
  BY <1>1, FractionAdded DEF Closed
<1>3. PICK g \in [SUBSET D -> Fraction] : FractionSums(g, D, f) /\ SumFractions(f) = g[D]
  <2>1. ByElements(Fraction, D, f)
    BY <1>2, FractionsByElements
  <2> QED
    BY <2>1 DEF ByElements
<1> DEFINE G == {s \in SUBSET D : g[s].num * M = Over(w, s) * g[s].den}
<1>4. {} \in G
  BY <1>3, SumOver DEF FractionSums
<1>5. ASSUME NEW s \in SUBSET D, s # {}, s \ {Chosen(s)} \in G
      PROVE  s \in G
  <2> DEFINE c == Chosen(s)
             t == s \ {c}
  <2>1. c \in s /\ c \in D /\ t \in SUBSET D
    BY <1>5, ChosenFrom
  <2>2. g[s] = AddFractions(f[c], g[t])
    BY <1>3, <1>5 DEF FractionSums
  <2>3. g[t].num * M = Over(w, t) * g[t].den
    BY <1>5
  <2> HIDE DEF c, t
  <2>4. Over(w, s) = w[c] + Over(w, t) /\ Over(w, t) \in Nat /\ w[c] \in Nat
    BY <2>1, SumOver DEF t
  <2>5. f[c] \in Fraction /\ g[t] \in Fraction /\ f[c].num * M = w[c] * f[c].den
    BY <2>1
  <2>6. AddFractions(f[c], g[t]).num * M
          = (w[c] + Over(w, t)) * AddFractions(f[c], g[t]).den
    BY <2>3, <2>4, <2>5, FractionAdded
  <2> QED
    BY <2>2, <2>4, <2>6
<1> HIDE DEF G
<1>6. SUBSET D \subseteq G
  BY <1>4, <1>5, SubsetInduction
<1>7. D \in SUBSET D
  OBVIOUS
<1>8. g[D].num * M = Over(w, D) * g[D].den
  BY <1>6, <1>7 DEF G
<1> QED
  BY <1>3, <1>7, <1>8, SumOver

\* Rounding is off by half of one at most.
LEMMA Rounded ==
  ASSUME NEW s \in Fraction, NEW M \in Nat \ {0}, NEW w \in Nat, s.num * M = w * s.den
  PROVE  LET a == (2 * s.num + s.den) \div (2 * s.den)
         IN  a \in Nat /\ 2 * (M * a) <= 2 * w + M /\ 2 * w <= 2 * (M * a) + M
<1> DEFINE n == s.num
           d == s.den
           a == (2 * n + d) \div (2 * d)
<1>1. n \in Nat /\ d \in Nat \ {0} /\ n * M = w * d
  BY DEF Fraction
<1> HIDE DEF n, d
<1>2. /\ a \in Nat
      /\ (2 * d) * a <= 2 * n + d /\ 2 * n + d <= (2 * d) * a + 2 * d
  <2>1. ASSUME NEW x \in Nat, NEW y \in Nat \ {0}
        PROVE  x \div y \in Nat /\ y * (x \div y) <= x /\ x <= y * (x \div y) + y
    OBVIOUS
  <2>2. 2 * n + d \in Nat /\ 2 * d \in Nat \ {0}
    BY <1>1
  <2> QED
    BY <2>1, <2>2
<1> HIDE DEF a
<1>3. /\ ((2 * d) * a) * M <= (2 * n + d) * M
      /\ (2 * n + d) * M <= ((2 * d) * a + 2 * d) * M
  <2>1. ASSUME NEW x \in Nat, NEW y \in Nat, x <= y
        PROVE  x * M <= y * M
    <3>1. PICK z \in Nat : y = x + z
      <4>1. y - x \in Nat /\ y = x + (y - x)
        BY <2>1
      <4> QED
        BY <4>1
    <3>2. y * M = x * M + z * M /\ z * M \in Nat /\ x * M \in Nat
      BY <3>1
    <3> QED
      BY <3>2
  <2>2. (2 * d) * a \in Nat /\ 2 * n + d \in Nat /\ (2 * d) * a + 2 * d \in Nat
    BY <1>1, <1>2
  <2> QED
    BY <1>2, <2>1, <2>2
<1>4. (2 * n + d) * M = d * (2 * w + M)
  <2>1. (2 * n + d) * M = 2 * (n * M) + d * M
    BY <1>1
  <2>2. 2 * (w * d) + d * M = d * (2 * w + M)
    BY <1>1
  <2> QED
    BY <1>1, <2>1, <2>2
<1>5. /\ ((2 * d) * a) * M = d * (2 * (M * a))
      /\ ((2 * d) * a + 2 * d) * M = d * (2 * (M * a) + 2 * M)
  BY <1>1, <1>2
<1>6. 2 * w + M \in Nat /\ 2 * (M * a) \in Nat /\ 2 * (M * a) + 2 * M \in Nat
  BY <1>2
<1>7. 2 * (M * a) <= 2 * w + M /\ 2 * w + M <= 2 * (M * a) + 2 * M
  BY <1>1, <1>3, <1>4, <1>5, <1>6, CancelFactor
<1>8. 2 * w <= 2 * (M * a) + M
  <2>1. M * a \in Nat
    BY <1>2
  <2> QED
    BY <1>7, <2>1
<1> QED
  BY <1>2, <1>7, <1>8 DEF a, n, d

LEMMA CommonMultiple ==
  ASSUME NEW D, IsFiniteSet(D), NEW den \in [D -> Nat \ {0}]
  PROVE  \E M \in Nat \ {0} : \E c \in [D -> Nat] : \A d \in D : M = den[d] * c[d]
<1> DEFINE Of(M, s) == \A d \in s : \E c \in Nat : M = den[d] * c
           G == {s \in SUBSET D : \E M \in Nat \ {0} : Of(M, s)}
<1>1. {} \in G
  BY 1 \in Nat \ {0}
<1>2. ASSUME NEW s \in SUBSET D, s # {}, s \ {Chosen(s)} \in G
      PROVE  s \in G
  <2>1. Chosen(s) \in s /\ Chosen(s) \in D
    BY <1>2, ChosenFrom
  <2>2. PICK M \in Nat \ {0} : Of(M, s \ {Chosen(s)})
    BY <1>2
  <2>3. PICK e \in Nat \ {0} : e = den[Chosen(s)]
    BY <2>1
  <2>4. PICK N \in Nat \ {0} : N = M * e
    BY TimesPositive
  <2>5. ASSUME NEW d \in s
        PROVE  \E c \in Nat : N = den[d] * c
    <3>1. CASE d = Chosen(s)
      <4>1. N = den[d] * M
        BY <2>3, <2>4, <3>1
      <4> QED
        BY <4>1
    <3>2. CASE d # Chosen(s)
      <4>1. PICK c \in Nat : M = den[d] * c
        BY <2>2, <3>2
      <4>2. PICK q \in Nat : q = den[d]
        OBVIOUS
      <4>3. N = q * (c * e) /\ c * e \in Nat
        BY <2>4, <4>1, <4>2
      <4> QED
        BY <4>2, <4>3
    <3> QED
      BY <3>1, <3>2
  <2> QED
    BY <2>5
<1> HIDE DEF G
<1>3. SUBSET D \subseteq G
  BY <1>1, <1>2, SubsetInduction
<1>4. PICK M \in Nat \ {0} : Of(M, D)
  BY <1>3 DEF G
<1> DEFINE c == [d \in D |-> CHOOSE e \in Nat : M = den[d] * e]
<1>5. c \in [D -> Nat] /\ \A d \in D : M = den[d] * c[d]
  BY <1>4
<1> QED
  BY <1>5

\* Rounded M-ths of whole numbers, summed up.
LEMMA RoundedSum ==
  ASSUME NEW D, IsFiniteSet(D), NEW M \in Nat, NEW a \in [D -> Nat], NEW w \in [D -> Nat],
         \A d \in D : 2 * (M * a[d]) <= 2 * w[d] + M /\ 2 * w[d] <= 2 * (M * a[d]) + M
  PROVE  /\ 2 * (M * Plus(a)) <= 2 * Plus(w) + M * Cardinality(D)
         /\ 2 * Plus(w) <= 2 * (M * Plus(a)) + M * Cardinality(D)
<1> DEFINE G == {s \in SUBSET D :
                   /\ 2 * (M * Over(a, s)) <= 2 * Over(w, s) + M * Cardinality(s)
                   /\ 2 * Over(w, s) <= 2 * (M * Over(a, s)) + M * Cardinality(s)}
<1>1. {} \in G
  BY SumOver, FS_EmptySet
<1>2. ASSUME NEW s \in SUBSET D, s # {}, s \ {Chosen(s)} \in G
      PROVE  s \in G
  <2> DEFINE c == Chosen(s)
             t == s \ {c}
  <2>1. /\ c \in s /\ c \in D /\ t \in SUBSET D
        /\ Cardinality(s) \in Nat \ {0} /\ Cardinality(t) = Cardinality(s) - 1
    BY <1>2, ChosenFrom
  <2>2. /\ 2 * (M * Over(a, t)) <= 2 * Over(w, t) + M * Cardinality(t)
        /\ 2 * Over(w, t) <= 2 * (M * Over(a, t)) + M * Cardinality(t)
    BY <1>2
  <2>3. /\ Over(a, s) = a[c] + Over(a, t) /\ Over(a, t) \in Nat /\ a[c] \in Nat
        /\ Over(w, s) = w[c] + Over(w, t) /\ Over(w, t) \in Nat /\ w[c] \in Nat
    BY <2>1, SumOver
  <2>4. 2 * (M * a[c]) <= 2 * w[c] + M /\ 2 * w[c] <= 2 * (M * a[c]) + M
    BY <2>1
  <2> HIDE DEF c, t
  <2>5. /\ M * Over(a, s) = M * a[c] + M * Over(a, t)
        /\ M * Cardinality(s) = M * Cardinality(t) + M
        /\ M * a[c] \in Nat /\ M * Over(a, t) \in Nat /\ M * Cardinality(t) \in Nat
    <3>1. \A x, y \in Nat : M * (x + y) = M * x + M * y /\ M * x \in Nat
      OBVIOUS
    <3>2. PICK n \in Nat : n = Cardinality(t) /\ n + 1 = Cardinality(s)
      <4>1. \A k \in Nat \ {0} : k - 1 \in Nat /\ k - 1 + 1 = k
        OBVIOUS
      <4> QED
        BY <2>1, <4>1
    <3>3. M * (n + 1) = M * n + M /\ M * n \in Nat
      OBVIOUS
    <3>4. M * Over(a, s) = M * a[c] + M * Over(a, t)
          /\ M * a[c] \in Nat /\ M * Over(a, t) \in Nat
      BY <2>3, <3>1
    <3> QED
      BY <3>2, <3>3, <3>4
  <2>6. /\ 2 * (M * Over(a, s)) <= 2 * Over(w, s) + M * Cardinality(s)
        /\ 2 * Over(w, s) <= 2 * (M * Over(a, s)) + M * Cardinality(s)
    BY <2>2, <2>3, <2>4, <2>5
  <2> QED
    BY <2>6
<1> HIDE DEF G
<1>3. SUBSET D \subseteq G
  BY <1>1, <1>2, SubsetInduction
<1>4. D \in SUBSET D
  OBVIOUS
<1> QED
  BY <1>3, <1>4, SumOver DEF G

LEMMA PlusOfPairs ==
  ASSUME NEW p, NEW I, IsFiniteSet(I), NEW w \in [{p} \X I -> Nat]
  PROVE  Plus(w) = Plus([i \in I |-> w[<<p, i>>]])
<1> DEFINE D == {p} \X I
<1>1. PICK key \in [D -> I] : \A u \in D : key[u] = u[2]
  <2>1. [u \in D |-> u[2]] \in [D -> I]
    OBVIOUS
  <2> QED
    BY <2>1
<1>2. IsFiniteSet(D)
  BY FS_Singleton, FS_Product
<1>3. \A i \in I : {u \in D : key[u] = i} = {<<p, i>>}
  BY <1>1
<1>4. w \in [D -> Nat]
  OBVIOUS
<1> HIDE DEF D
<1>5. Plus(w) = Plus([i \in I |-> Over(w, {u \in D : key[u] = i})])
  BY <1>2, <1>4, PlusByParts
<1>6. ASSUME NEW i \in I
      PROVE  Over(w, {<<p, i>>}) = w[<<p, i>>]
  <2>1. PICK s \in SUBSET D : s = {<<p, i>>}
    BY DEF D
  <2>2. PICK u \in s : u = <<p, i>> /\ s \ {u} = {}
    BY <2>1
  <2>3. Over(w, s) = w[u] + Over(w, s \ {u}) /\ Over(w, {}) = 0
    BY <1>2, <1>4, SumOver
  <2>4. w[u] \in Nat
    BY <1>4, <2>2
  <2>5. Over(w, s) = w[u] + 0
    BY <2>2, <2>3, Zenon
  <2>6. Over(w, s) = w[u]
    BY <2>4, <2>5
  <2> QED
    BY <2>1, <2>2, <2>6, Zenon
<1>7. [i \in I |-> Over(w, {u \in D : key[u] = i})] = [i \in I |-> w[<<p, i>>]]
  BY <1>3, <1>6
<1> QED
  BY <1>5, <1>7

\* A share of x as Share gives it.
Den(x, in) == IF TotalIn(x, in) > 0 THEN TotalIn(x, in) ELSE Cardinality(Users(x))
Num(u, x, in) == IF TotalIn(x, in) > 0 THEN In(u[1], in) ELSE 1

LEMMA SharesOfOne ==
  ASSUME topology \in Topologies, NEW in \in Count(Receivers), NEW x, Users(x) # {}
  PROVE  /\ Den(x, in) \in Nat \ {0}
         /\ \A u \in Users(x) : Num(u, x, in) \in Nat
         /\ \A p : \A i : <<p, i>> \in Users(x) =>
              Share(p, x, in) = [num |-> Num(<<p, i>>, x, in), den |-> Den(x, in)]
         /\ Plus([u \in Users(x) |-> Num(u, x, in)]) = Den(x, in)
<1>1. IsFiniteSet(Users(x)) /\ \A u \in Users(x) : u[1] \in Pipelines
  BY TopologyFinite
<1>2. TotalIn(x, in) \in Nat
  BY TotalInGrows DEF Count
<1>3. \A u \in Users(x) : In(u[1], in) \in Nat
  BY <1>1, InGrows DEF Count
<1>4. Cardinality(Users(x)) \in Nat \ {0}
  BY <1>1, FS_CardinalityType, FS_EmptySet
<1>5. CASE TotalIn(x, in) > 0
  <2>1. [u \in Users(x) |-> Num(u, x, in)] = [u \in Users(x) |-> In(u[1], in)]
    BY <1>5 DEF Num
  <2>2. Plus([u \in Users(x) |-> Num(u, x, in)]) = Den(x, in)
    BY <1>5, <2>1 DEF TotalIn, Den
  <2>3. Den(x, in) \in Nat \ {0}
    BY <1>2, <1>5 DEF Den
  <2>4. \A u \in Users(x) : Num(u, x, in) \in Nat
    BY <1>3, <1>5 DEF Num
  <2> QED
    BY <1>5, <2>2, <2>3, <2>4 DEF Den, Num, Share
<1>6. CASE ~ (TotalIn(x, in) > 0)
  <2>1. [u \in Users(x) |-> Num(u, x, in)] = [u \in Users(x) |-> 1]
    BY <1>6 DEF Num
  <2>2. Plus([u \in Users(x) |-> Num(u, x, in)]) = Den(x, in)
    BY <1>1, <1>6, <2>1, PlusOnes DEF Den
  <2>3. Den(x, in) \in Nat \ {0}
    BY <1>4, <1>6 DEF Den
  <2>4. \A u \in Users(x) : Num(u, x, in) \in Nat
    BY <1>6 DEF Num
  <2> QED
    BY <1>6, <2>2, <2>3, <2>4 DEF Den, Num, Share
<1> QED
  BY <1>5, <1>6

UsedExporters == {x \in Exporters : Users(x) # {}}
By(u) == ExportersOf[u[1]][u[2]]

LEMMA UsesOfUsed ==
  ASSUME topology \in Topologies
  PROVE  /\ IsFiniteSet(UsedExporters)
         /\ \A u \in Uses : By(u) \in UsedExporters /\ u \in Users(By(u))
                              /\ u[1] \in Pipelines
         /\ \A x : Users(x) = {u \in Uses : By(u) = x}
         /\ \A p \in Pipelines : {u \in Uses : u[1] = p} = {p} \X DOMAIN ExportersOf[p]
<1>1. ASSUME NEW u \in Uses
      PROVE  By(u) \in UsedExporters /\ u \in Users(By(u)) /\ u[1] \in Pipelines
  <2>1. u \in Users(By(u))
    BY DEF Users, By
  <2>2. u[1] \in Pipelines /\ u[2] \in DOMAIN ExportersOf[u[1]]
    BY DEF Uses
  <2>3. By(u) \in Exporters
    BY <2>2, TopologyFinite DEF By
  <2> QED
    BY <2>1, <2>2, <2>3 DEF UsedExporters
<1>2. IsFiniteSet(UsedExporters)
  <2> DEFINE f == [u \in Uses |-> By(u)]
  <2>1. \A x \in UsedExporters : \E u \in Uses : f[u] = x
    BY DEF UsedExporters, Users, By
  <2>2. f \in [Uses -> UsedExporters]
    BY <1>1
  <2> HIDE DEF f
  <2>3. f \in Surjection(Uses, UsedExporters)
    BY <2>1, <2>2 DEF Surjection
  <2> QED
    BY <2>3, TopologyFinite, FS_Surjection
<1>3. \A x : Users(x) = {u \in Uses : By(u) = x}
  BY DEF Users, By
<1>4. \A p \in Pipelines : {u \in Uses : u[1] = p} = {p} \X DOMAIN ExportersOf[p]
  BY DEF Uses
<1> QED
  BY <1>1, <1>2, <1>3, <1>4

\* The M-ths that each use of an exporter is attributed.
Weight(count, in, c) ==
  [u \in Uses |-> (count[By(u)] * c[By(u)]) * Num(u, By(u), in)]

Denominator(M, c, in) ==
  /\ M \in Nat \ {0} /\ c \in [UsedExporters -> Nat]
  /\ \A x \in UsedExporters : M = Den(x, in) * c[x]

LEMMA WeightNat ==
  ASSUME topology \in Topologies, NEW in \in Count(Receivers),
         NEW count \in Count(Exporters), NEW M, NEW c, Denominator(M, c, in)
  PROVE  Weight(count, in, c) \in [Uses -> Nat]
<1>1. ASSUME NEW u \in Uses
      PROVE  (count[By(u)] * c[By(u)]) * Num(u, By(u), in) \in Nat
  <2>1. By(u) \in UsedExporters /\ u \in Users(By(u))
    BY UsesOfUsed
  <2>2. Num(u, By(u), in) \in Nat
    BY <2>1, SharesOfOne
  <2>3. count[By(u)] \in Nat /\ c[By(u)] \in Nat
    BY <2>1 DEF UsedExporters, Count, Denominator
  <2> QED
    BY <2>2, <2>3
<1> QED
  BY <1>1 DEF Weight

LEMMA AttributedWeight ==
  ASSUME topology \in Topologies, NEW in \in Count(Receivers),
         NEW count \in Count(Exporters), NEW M, NEW c, Denominator(M, c, in),
         NEW p \in Pipelines
  PROVE  LET a == Attributed(p, in, count)
             w == Over(Weight(count, in, c), {u \in Uses : u[1] = p})
         IN  a \in Nat /\ 2 * (M * a) <= 2 * w + M /\ 2 * w <= 2 * (M * a) + M
<1> DEFINE D == DOMAIN ExportersOf[p]
           Part(x) == [num |-> count[x] * Share(p, x, in).num, den |-> Share(p, x, in).den]
           f == [i \in D |-> Part(ExportersOf[p][i])]
           W == Weight(count, in, c)
           w == [i \in D |-> W[<<p, i>>]]
<1>1. IsFiniteSet(D)
  BY TopologyFinite
<1>2. W \in [Uses -> Nat]
  BY WeightNat
<1>3. {u \in Uses : u[1] = p} = {p} \X D
  BY UsesOfUsed
<1>4. \A i \in D : <<p, i>> \in Uses
  BY <1>3
<1>5. ASSUME NEW i \in D
      PROVE  f[i] \in Fraction /\ w[i] \in Nat /\ f[i].num * M = w[i] * f[i].den
  <2> DEFINE x == ExportersOf[p][i]
  <2>1. By(<<p, i>>) = x /\ x \in UsedExporters /\ <<p, i>> \in Users(x)
    <3>1. By(<<p, i>>) = x
      BY DEF By
    <3> QED
      BY <1>4, <3>1, UsesOfUsed
  <2> HIDE DEF x
  <2>2. PICK n \in Nat, d \in Nat \ {0} : n = Num(<<p, i>>, x, in) /\ d = Den(x, in)
    BY <2>1, SharesOfOne DEF UsedExporters
  <2>3. Share(p, x, in) = [num |-> n, den |-> d]
    BY <2>1, <2>2, SharesOfOne DEF UsedExporters
  <2>4. PICK k \in Nat, e \in Nat : k = count[x] /\ e = c[x]
    BY <2>1 DEF UsedExporters, Count, Denominator
  <2>5. f[i] = [num |-> k * n, den |-> d]
    BY <2>3, <2>4 DEF x
  <2>6. w[i] = (k * e) * n
    BY <1>4, <2>1, <2>2, <2>4 DEF Weight
  <2>7. M = d * e
    BY <2>1, <2>2, <2>4 DEF Denominator
  <2> HIDE DEF f, w
  <2>8. k * n \in Nat /\ (k * e) * n \in Nat
    OBVIOUS
  <2>9. (k * n) * (d * e) = ((k * e) * n) * d
    OBVIOUS
  <2>10. f[i] \in Fraction /\ f[i].num = k * n /\ f[i].den = d
    BY <2>5, <2>8 DEF Fraction
  <2> QED
    BY <2>6, <2>7, <2>8, <2>9, <2>10
<1>6. f \in [D -> Fraction] /\ w \in [D -> Nat]
  BY <1>5
<1>7. Attributed(p, in, count)
        = (2 * SumFractions(f).num + SumFractions(f).den) \div (2 * SumFractions(f).den)
  BY DEF Attributed
<1>8. Over(W, {u \in Uses : u[1] = p}) = Plus(w)
  <2> DEFINE v == [u \in {p} \X D |-> W[u]]
  <2>1. v \in [{p} \X D -> Nat]
    BY <1>2, <1>3
  <2>2. Over(W, {u \in Uses : u[1] = p}) = Plus(v)
    BY <1>3 DEF Over
  <2>3. [i \in D |-> v[<<p, i>>]] = w
    OBVIOUS
  <2> HIDE DEF v, w, W, D
  <2>4. Plus(v) = Plus([i \in D |-> v[<<p, i>>]])
    <3>1. IsFiniteSet(D)
      BY <1>1
    <3> QED
      BY <2>1, <3>1, PlusOfPairs, Zenon
  <2> QED
    BY <2>2, <2>3, <2>4
<1> HIDE DEF f, w, D
<1>9. /\ SumFractions(f) \in Fraction
      /\ SumFractions(f).num * M = Plus(w) * SumFractions(f).den
  <2>1. \A i \in D : f[i].num * M = w[i] * f[i].den
    BY <1>5
  <2>2. M \in Nat
    BY DEF Denominator
  <2> QED
    BY <1>1, <1>6, <2>1, <2>2, FractionSum
<1>10. Plus(w) \in Nat /\ M \in Nat \ {0}
  BY <1>1, <1>6, PlusNat DEF Denominator
<1> QED
  BY <1>7, <1>8, <1>9, <1>10, Rounded

LEMMA WeightOfOne ==
  ASSUME topology \in Topologies, NEW in \in Count(Receivers),
         NEW count \in Count(Exporters), NEW M, NEW c, Denominator(M, c, in),
         NEW x \in UsedExporters
  PROVE  Over(Weight(count, in, c), {u \in Uses : By(u) = x}) = M * count[x]
<1> DEFINE W == Weight(count, in, c)
           f == [u \in Users(x) |-> W[u]]
           h == [u \in Users(x) |-> Num(u, x, in)]
<1>1. Users(x) = {u \in Uses : By(u) = x} /\ IsFiniteSet(Users(x)) /\ Users(x) # {}
  BY UsesOfUsed, TopologyFinite DEF UsedExporters
<1>2. PICK k \in Nat, e \in Nat, d \in Nat :
        k = count[x] /\ e = c[x] /\ d = Den(x, in) /\ M = d * e
  BY <1>1, SharesOfOne DEF UsedExporters, Count, Denominator
<1>3. h \in [Users(x) -> Nat] /\ Plus(h) = d
  BY <1>1, <1>2, SharesOfOne
<1>4. \A u \in Users(x) : f[u] = (k * e) * h[u]
  BY <1>1, <1>2 DEF Weight
<1>5. f \in [Users(x) -> Nat]
  BY <1>1, WeightNat
<1>6. Over(W, {u \in Uses : By(u) = x}) = Plus(f)
  BY <1>1 DEF Over
<1> HIDE DEF W, f, h
<1>7. PICK b \in Nat : b = k * e
  OBVIOUS
<1>8. Plus(f) = (k * e) * Plus(h)
  <2>1. \A u \in Users(x) : f[u] = b * h[u]
    BY <1>4, <1>7
  <2>2. Plus(f) = b * Plus(h)
    BY <1>1, <1>3, <1>5, <2>1, PlusScaled
  <2> QED
    BY <1>7, <2>2
<1>9. (k * e) * d = (d * e) * k
  OBVIOUS
<1>10. Over(W, {u \in Uses : By(u) = x}) = M * count[x]
  BY <1>2, <1>3, <1>6, <1>8, <1>9
<1> QED
  BY <1>10 DEF W

LEMMA SharesSum ==
  ASSUME topology \in Topologies, NEW in \in Count(Receivers),
         NEW count \in Count(Exporters)
  PROVE  Close([p \in Pipelines |-> Attributed(p, in, count)],
               Plus([x \in UsedExporters |-> count[x]]))
<1> DEFINE a == [p \in Pipelines |-> Attributed(p, in, count)]
           n == [x \in UsedExporters |-> count[x]]
<1>1. PICK M, c : Denominator(M, c, in)
  <2> DEFINE den == [x \in UsedExporters |-> Den(x, in)]
  <2>1. den \in [UsedExporters -> Nat \ {0}]
    BY SharesOfOne DEF UsedExporters
  <2>2. \A x \in UsedExporters : den[x] = Den(x, in)
    OBVIOUS
  <2> HIDE DEF den
  <2>3. \E M \in Nat \ {0} : \E c \in [UsedExporters -> Nat] :
          \A x \in UsedExporters : M = den[x] * c[x]
    BY <2>1, UsesOfUsed, CommonMultiple
  <2> QED
    BY <2>2, <2>3 DEF Denominator
<1>2. PICK W \in [Uses -> Nat] : W = Weight(count, in, c)
  BY <1>1, WeightNat
<1> DEFINE w == [p \in Pipelines |-> Over(W, {u \in Uses : u[1] = p})]
<1>3. ASSUME NEW p \in Pipelines
      PROVE  /\ a[p] \in Nat /\ w[p] \in Nat
             /\ 2 * (M * a[p]) <= 2 * w[p] + M /\ 2 * w[p] <= 2 * (M * a[p]) + M
  <2>1. {u \in Uses : u[1] = p} \in SUBSET Uses
    OBVIOUS
  <2>2. w[p] \in Nat
    BY <2>1, TopologyFinite, SumOver
  <2> QED
    BY <1>1, <1>2, <2>2, AttributedWeight
<1>4. Plus(W) = Plus(w)
  <2>1. PICK key \in [Uses -> Pipelines] : \A u \in Uses : key[u] = u[1]
    <3>1. [u \in Uses |-> u[1]] \in [Uses -> Pipelines]
      BY UsesOfUsed
    <3> QED
      BY <3>1
  <2>2. Plus(W) = Plus([p \in Pipelines |-> Over(W, {u \in Uses : key[u] = p})])
    <3>1. IsFiniteSet(Uses) /\ IsFiniteSet(Pipelines)
      BY TopologyFinite, TopologyAssumption
    <3> QED
      BY <3>1, PlusByParts
  <2>3. \A p \in Pipelines : {u \in Uses : key[u] = p} = {u \in Uses : u[1] = p}
    BY <2>1
  <2> QED
    BY <2>2, <2>3
<1>5. n \in [UsedExporters -> Nat]
  BY DEF UsedExporters, Count
<1>6. Plus(W) = M * Plus(n)
  <2> DEFINE v == [x \in UsedExporters |-> Over(W, {u \in Uses : By(u) = x})]
  <2>1. PICK key \in [Uses -> UsedExporters] : \A u \in Uses : key[u] = By(u)
    <3>1. [u \in Uses |-> By(u)] \in [Uses -> UsedExporters]
      BY UsesOfUsed
    <3> QED
      BY <3>1
  <2>2. Plus(W) = Plus([x \in UsedExporters |-> Over(W, {u \in Uses : key[u] = x})])
    <3>1. IsFiniteSet(Uses) /\ IsFiniteSet(UsedExporters)
      BY TopologyFinite, UsesOfUsed
    <3> QED
      BY <3>1, PlusByParts
  <2>3. \A x \in UsedExporters : {u \in Uses : key[u] = x} = {u \in Uses : By(u) = x}
    BY <2>1
  <2>4. Plus(W) = Plus(v)
    BY <2>2, <2>3
  <2>5. \A x \in UsedExporters : v[x] = M * n[x]
    BY <1>1, <1>2, WeightOfOne
  <2>6. M \in Nat /\ v \in [UsedExporters -> Nat]
    <3>1. M \in Nat /\ \A x \in UsedExporters : M * n[x] \in Nat
      BY <1>1, <1>5 DEF Denominator
    <3> QED
      BY <2>5, <3>1
  <2> HIDE DEF v, n
  <2>7. Plus(v) = M * Plus(n)
    BY <1>5, <2>5, <2>6, UsesOfUsed, PlusScaled
  <2> QED
    BY <2>4, <2>7
<1>7. a \in [Pipelines -> Nat] /\ w \in [Pipelines -> Nat] /\ M \in Nat \ {0}
  BY <1>1, <1>3 DEF Denominator
<1>8. IsFiniteSet(Pipelines)
  BY TopologyAssumption
<1> HIDE DEF a, w, n
<1>9. /\ 2 * (M * Plus(a)) <= 2 * Plus(w) + M * Cardinality(Pipelines)
      /\ 2 * Plus(w) <= 2 * (M * Plus(a)) + M * Cardinality(Pipelines)
  BY <1>3, <1>7, <1>8, RoundedSum
<1>10. PICK A \in Nat, T \in Nat, C \in Nat :
         A = Plus(a) /\ T = Plus(n) /\ C = Cardinality(Pipelines)
  BY <1>5, <1>7, <1>8, UsesOfUsed, PlusNat, FS_CardinalityType
<1>11. 2 * (M * A) <= 2 * (M * T) + M * C /\ 2 * (M * T) <= 2 * (M * A) + M * C
  BY <1>4, <1>6, <1>9, <1>10
<1>12. /\ 2 * (M * A) = M * (2 * A) /\ 2 * (M * T) + M * C = M * (2 * T + C)
       /\ 2 * (M * T) = M * (2 * T) /\ 2 * (M * A) + M * C = M * (2 * A + C)
  BY <1>7
<1>13. 2 * A <= 2 * T + C /\ 2 * T <= 2 * A + C
  <2>1. 2 * A \in Nat /\ 2 * T + C \in Nat /\ 2 * T \in Nat /\ 2 * A + C \in Nat
    OBVIOUS
  <2>2. M * (2 * A) <= M * (2 * T + C) /\ M * (2 * T) <= M * (2 * A + C)
    BY <1>11, <1>12
  <2> QED
    BY <1>7, <2>1, <2>2, CancelFactor
<1>14. Close(a, Plus(n))
  BY <1>10, <1>13 DEF Close
<1> QED
  BY <1>14 DEF a, n

\* What the pipelines of any topology show is what their exporters counted, but
\* for half a record of rounding each (computePipelineSnapshots).
THEOREM SharesCorrect == Spec => []SharesAddUp
<1>1. Spec => []Typed
  <2>1. IInv => Typed
    BY DEF IInv
  <2> QED
    BY <2>1, InvAlways, PTL
<1>2. Typed => SharesAddUp
  <2> SUFFICES ASSUME Typed
               PROVE  SharesAddUp
    OBVIOUS
  <2>1. /\ Close([p \in Pipelines |-> Attributed(p, accepted, sent)],
                 Plus([x \in UsedExporters |-> sent[x]]))
        /\ Close([p \in Pipelines |-> Attributed(p, accepted, failed)],
                 Plus([x \in UsedExporters |-> failed[x]]))
    BY SharesSum DEF Typed
  <2> DEFINE shown == computePipelineSnapshots(accepted, sent, failed)
  <2>2. /\ [p \in Pipelines |-> shown[p].events_out]
             = [p \in Pipelines |-> Attributed(p, accepted, sent)]
        /\ [p \in Pipelines |-> shown[p].events_dropped]
             = [p \in Pipelines |-> Attributed(p, accepted, failed)]
    BY DEF computePipelineSnapshots
  <2> QED
    BY <2>1, <2>2 DEF SharesAddUp, UsedExporters
<1> QED
  BY <1>1, <1>2, PTL
=============================================================================
