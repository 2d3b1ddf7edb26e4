------------------------------ MODULE Dashboard ------------------------------
(***************************************************************************)
(* `sgcia dashboard` (crates/collector/src/dashboard) against a status     *)
(* extension that may be slow, unable to scrape, down or restarted.  The   *)
(* program has one task: while it awaits a poll, at most two seconds, keys *)
(* wait in the terminal.                                                   *)
(***************************************************************************)
EXTENDS StatusExtension

VARIABLES
  last_snapshot, last_error,   \* App; the error only as whether there is one
  poll,     \* the request being awaited, if any
  typed,    \* a `q` or Esc waits in the terminal
  done      \* run_app returned, or no dashboard is open at all

vars == <<extensionVars, last_snapshot, last_error, poll, typed, done>>

Init ==
  /\ BufferInit
  /\ topology \in Topologies
  /\ up = TRUE /\ started = 1
  /\ accepted = [r \in Receivers |-> 0]
  /\ sent = [x \in Exporters |-> 0] /\ failed = [x \in Exporters |-> 0]
  /\ posts = {} /\ call = None /\ ingest = None
  /\ handler = [h \in Handlers |-> <<Free>>]
  /\ last_snapshot = None /\ last_error = FALSE
  /\ poll = None /\ typed = FALSE /\ done \in BOOLEAN

UNSEEN == UNCHANGED <<last_snapshot, last_error, poll, typed, done>>

-----------------------------------------------------------------------------
\* The process dies with all it keeps, and is started again.

Crash ==
  /\ up /\ started < MaxStarts
  /\ up' = FALSE
  /\ Reset
  /\ accepted' = [r \in Receivers |-> 0]
  /\ sent' = [x \in Exporters |-> 0] /\ failed' = [x \in Exporters |-> 0]
  /\ posts' = {} /\ call' = None /\ ingest' = None
  /\ handler' = [h \in Handlers |-> <<Free>>]
  /\ UNCHANGED <<topology, started>> /\ UNSEEN

Start ==
  /\ ~ up /\ up' = TRUE
  /\ started' = started + 1
  /\ UNCHANGED <<bufferVars, topology, accepted, sent, failed, posts, call, ingest,
                 handler>>
  /\ UNSEEN

-----------------------------------------------------------------------------
\* The select! loop: a tick, or a key, when no poll is awaited.

Running == ~ done /\ poll = None

\* tick, fetch_status sends its request; which handler serves it is immaterial.
Idle == {h \in Handlers : handler[h] = <<Free>>}
Tick ==
  /\ Running /\ up /\ Idle # {}
  /\ LET h == CHOOSE h \in Idle : TRUE
     IN  poll' = Some(h) /\ Handle(h, <<Asked>>)
  /\ UNCHANGED <<last_snapshot, last_error, typed, done>>

\* "connection failed".
Refused ==
  /\ Running /\ ~ up
  /\ last_error' = TRUE
  /\ UNCHANGED <<extensionVars, last_snapshot, poll, typed, done>>

\* App::update.
BugPollResult(result) ==
  /\ last_snapshot' = IF result[1] = "ok" THEN Some(result[2]) ELSE None
  /\ last_error' = (result[1] # "ok")
PollResult(result) ==
  /\ last_snapshot' =
       IF result[1] = "ok" THEN Some(result[2]) ELSE last_snapshot
  /\ last_error' = (result[1] # "ok")

\* A late answer finds its connection closed.
BugReply(h) ==
  /\ handler[h] \notin {<<Free>>, <<Asked>>}
  /\ Handle(h, <<Free>>)
  /\ PollResult(handler[h])
  /\ poll' = IF poll = Some(h) THEN None ELSE poll
  /\ UNCHANGED <<typed, done>>
Reply(h) ==
  /\ handler[h] \notin {<<Free>>, <<Asked>>}
  /\ Handle(h, <<Free>>)
  /\ IF poll = Some(h) THEN PollResult(handler[h]) /\ poll' = None
     ELSE UNCHANGED <<last_snapshot, last_error, poll>>
  /\ UNCHANGED <<typed, done>>

\* Two seconds are over, or the connection is lost.
BugGiveUp ==
  /\ poll # None /\ handler[poll[1]] # <<Free>>
  /\ PollResult(<<"timeout">>)
  /\ poll' = None
  /\ UNCHANGED <<extensionVars, typed, done>>
GiveUp ==
  /\ poll # None
  /\ PollResult(<<"timeout">>)
  /\ poll' = None
  /\ UNCHANGED <<extensionVars, typed, done>>

\* The user types `q`; handle_key asks to quit and the loop ends.
Type ==
  /\ ~ done /\ ~ typed /\ typed' = TRUE
  /\ UNCHANGED <<extensionVars, last_snapshot, last_error, poll, done>>

Key ==
  /\ Running /\ typed
  /\ typed' = FALSE /\ done' = TRUE
  /\ UNCHANGED <<extensionVars, last_snapshot, last_error, poll>>

-----------------------------------------------------------------------------

ExtensionStep ==
  /\ \/ Accept \/ Export
     \/ Post \/ BeginIngest \/ PutOne \/ EndIngest \/ PostTimeout \/ Logs
     \/ \E h \in Handlers : Scrape(h) \/ ScrapeFails(h)
  /\ UNSEEN

Next ==
  \/ ExtensionStep \/ Crash \/ Start
  \/ Tick \/ Refused \/ GiveUp \/ Type \/ Key
  \/ \E h \in Handlers : Reply(h)

Spec == Init /\ [][Next]_vars

\* A scrape or an answer the dashboard is still waiting for.
InTime(h, step) == poll = Some(h) /\ step

(***************************************************************************)
(* The process is started again (systemd); ticks come; a poll ends after   *)
(* two seconds at the latest.  select! picks among its ready branches at   *)
(* random, so a waiting key is read sooner or later although a tick may be *)
(* ready every time (strong fairness).  Of the environment: the collector  *)
(* ends a scrape sooner or later, and an extension that stays up answers a *)
(* poll in time again and again.                                           *)
(***************************************************************************)
Fairness ==
  /\ WF_vars(Start) /\ WF_vars(Tick \/ Refused) /\ WF_vars(GiveUp)
  /\ WF_vars(\E h \in Handlers : ScrapeFails(h) /\ UNSEEN)
  /\ WF_vars(\E h \in Handlers : Reply(h))
  /\ SF_vars(Key)
  /\ SF_vars(\E h \in Handlers : InTime(h, Scrape(h) /\ UNSEEN))
  /\ SF_vars(\E h \in Handlers : InTime(h, Reply(h)) /\ handler[h][1] = "ok")

FairSpec == Spec /\ Fairness

-----------------------------------------------------------------------------

\* The collector's part is in order, the ring holds what it must, and no
\* exporter is counted for more than what reached it.
TypeOK ==
  /\ RingOK
  /\ started \in 1..MaxStarts /\ up \in BOOLEAN
  /\ \A x \in Exporters : sent[x] \in Nat /\ failed[x] \in Nat
       /\ sent[x] + failed[x] <= Reached(x)
  /\ call # None => call[1] \in posts \/ call = ingest
  /\ (ingest # None) = mu
  /\ poll \in {None} \union {Some(h) : h \in Handlers}

\* "split across the pipelines that use it": what the pipelines show adds up
\* to what their exporters counted, but for half a record of rounding each
\* (computePipelineSnapshots).
Close(shares, total) ==
  LET sum == Plus(shares)
  IN  /\ 2 * sum <= 2 * total + Cardinality(Pipelines)
      /\ 2 * total <= 2 * sum + Cardinality(Pipelines)
SharesAddUp ==
  LET Used == {x \in Exporters : Users(x) # {}}
      shown == computePipelineSnapshots(accepted, sent, failed)
  IN  /\ Close([p \in Pipelines |-> shown[p].events_out],
               Plus([x \in Used |-> sent[x]]))
      /\ Close([p \in Pipelines |-> shown[p].events_dropped],
               Plus([x \in Used |-> failed[x]]))

\* "a pipeline with zero real traffic would still report the exporter's
\* entire global total": no more, once the others have traffic.
IdleShowsNothing ==
  LET shown == computePipelineSnapshots(accepted, sent, failed)
      Busy(x) == \E u \in Users(x) : In(u[1], accepted) > 0
  IN  \A p \in Pipelines :
        In(p, accepted) = 0 /\ (\A x \in Range(ExportersOf[p]) : Busy(x))
          => shown[p].events_out = 0 /\ shown[p].events_dropped = 0

\* What the next screen shows of the process the last one showed only grows, or
\* it shows a later process.
Onward ==
  last_snapshot # None =>
    /\ last_snapshot' # None
    /\ LET old == last_snapshot[1]
           new == last_snapshot'[1]
       IN  \/ new.started_at > old.started_at
           \/ /\ new.started_at = old.started_at
              /\ \A r \in Receivers : new.receivers[r] >= old.receivers[r]
              /\ \A x \in Exporters :
                   /\ new.exporters[x].batches_sent >= old.exporters[x].batches_sent
                   /\ new.exporters[x].batches_failed
                        >= old.exporters[x].batches_failed

\* Neither a failed poll, nor an answer that comes after its poll was given
\* up, nor a restart makes the screen go back: "Keep showing the last good
\* snapshot rather than blanking the screen" (App::update).
NeverGoesBack == [][Onward]_vars

\* A typed `q` ends the program, however slow or dead the extension is
\* (run_app, the timeout of its client).
QuitHonoured == typed ~> done

\* Once the extension stays up, the screen comes to show that process and no
\* other, unless the user quits (run_app).
Recovers ==
  <>[](done \/ (last_snapshot # None /\ last_snapshot[1].started_at = started))
=============================================================================
