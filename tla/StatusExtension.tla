--------------------------- MODULE StatusExtension ---------------------------
(***************************************************************************)
(* The collector process as its status extension shows it: the counters    *)
(* scraped from the collector's own telemetry, the snapshot built from     *)
(* them (extension.go), and the log buffer fed by the logbuffer exporter   *)
(* (logbufferexporter) over HTTP.  The process may die at any moment; all  *)
(* of this state dies with it.                                             *)
(*                                                                         *)
(* The pipelines themselves are the collector's (external): every record a *)
(* receiver accepts reaches, once per pipeline that lists the receiver,    *)
(* each exporter of that pipeline, and is then counted as sent or failed.  *)
(* The k-th record that reaches the logbuffer exporter is the entry k.     *)
(***************************************************************************)
EXTENDS LogBuffer, Functions, Folds, FiniteSets

CONSTANTS
  Receivers, Exporters, Pipelines,      \* receiverIDs, exporterIDs
  Topologies,                           \* what a config may connect
  LogExporter,                          \* a topology may leave it out
  Handlers,                             \* requests for /status at one time
  MaxAccepted, MaxFailed, MaxStarts     \* bounds: records, failures, starts

ASSUME TopologyAssumption ==
  /\ IsFiniteSet(Pipelines) /\ IsFiniteSet(Receivers)
  /\ LogExporter \in Exporters
  /\ MaxStarts \in Nat \ {0}
  /\ \A t \in Topologies :
       /\ t.receivers \in [Pipelines -> Seq(Receivers)]
       /\ t.exporters \in [Pipelines -> Seq(Exporters)]

VARIABLES
  topology,                \* pipelineTopology: sequences of ids
  up, started,             \* whether the process runs; its startedAt
  accepted, sent, failed,  \* otelcol_{receiver,exporter}_..._log_records
  posts,                   \* POSTs to /internal/logs not yet at the buffer
  call,                    \* consumeLogs: the POST it waits for, if any
  ingest,                  \* the POST whose handler holds the mutex, if any
  handler                  \* handler[h]: a request for /status

extensionVars ==
  <<bufferVars, topology, up, started, accepted, sent, failed, posts, call, ingest,
    handler>>

Plus(f) == FoldFunction(+, 0, f)
None == << >>
Some(x) == <<x>>

ReceiversOf == topology.receivers
ExportersOf == topology.exporters

-----------------------------------------------------------------------------
\* The snapshot.

In(p, in) == Plus([i \in DOMAIN ReceiversOf[p] |-> in[ReceiversOf[p][i]]])

\* exporterUsers: a pipeline as often as it lists the exporter.
Uses == UNION {{p} \X DOMAIN ExportersOf[p] : p \in Pipelines}
Users(x) == {u \in Uses : ExportersOf[u[1]][u[2]] = x}
TotalIn(x, in) == Plus([u \in Users(x) |-> In(u[1], in)])

\* A pipeline's share of what is counted for an exporter, as a fraction.
BugShare(p, x, in) == [num |-> 1, den |-> 1]
Share(p, x, in) ==
  LET total == TotalIn(x, in)
  IN  IF total > 0 THEN [num |-> In(p, in), den |-> total]
      ELSE [num |-> 1, den |-> Cardinality(Users(x))]

AddFractions(f, g) == [num |-> f.num * g.den + g.num * f.den, den |-> f.den * g.den]
SumFractions(f) == FoldFunction(AddFractions, [num |-> 0, den |-> 1], f)

\* Its shares of its exporters' counts, added up and rounded (half up).
Attributed(p, in, count) ==
  LET Part(x) == LET share == Share(p, x, in)
                 IN  [num |-> count[x] * share.num, den |-> share.den]
      sum == SumFractions([i \in DOMAIN ExportersOf[p] |-> Part(ExportersOf[p][i])])
  IN  (2 * sum.num + sum.den) \div (2 * sum.den)

computePipelineSnapshots(in, out, lost) ==
  [p \in Pipelines |->
     [events_in |-> In(p, in), events_out |-> Attributed(p, in, out),
      events_dropped |-> Attributed(p, in, lost)]]

buildSnapshot ==
  [started_at |-> started,
   receivers |-> accepted,
   exporters |-> [x \in Exporters |->
     [events_in |-> sent[x] + failed[x], batches_sent |-> sent[x],
      batches_failed |-> failed[x]]],
   pipelines |-> computePipelineSnapshots(accepted, sent, failed)]

-----------------------------------------------------------------------------
\* The collector (external).

\* What reached an exporter so far, and what it is still to be counted for.
Reached(x) == TotalIn(x, accepted)
Waiting(x) == Reached(x) - sent[x] - failed[x]

Lost(x, n) == failed[x] + n <= MaxFailed[x]   \* bound

Collector(receivers, sents, faileds) ==
  /\ up
  /\ accepted' = receivers /\ sent' = sents /\ failed' = faileds
  /\ UNCHANGED <<bufferVars, topology, up, started, posts, call, ingest, handler>>

\* A receiver that no pipeline lists is not started.
Accept ==
  \E r \in UNION {Range(ReceiversOf[p]) : p \in Pipelines} :
    /\ accepted[r] < MaxAccepted[r]
    /\ Collector([accepted EXCEPT ![r] = @ + 1], sent, failed)

Export ==
  \E x \in Exporters \ {LogExporter} :
    /\ Waiting(x) > 0
    /\ \/ Collector(accepted, [sent EXCEPT ![x] = @ + 1], failed)
       \/ Lost(x, 1) /\ Collector(accepted, sent, [failed EXCEPT ![x] = @ + 1])

-----------------------------------------------------------------------------
\* The logbuffer exporter and POST /internal/logs.

\* consumeLogs: all that waits, in one POST (Batch bounds it).
Post ==
  /\ up /\ call = None /\ Waiting(LogExporter) > 0
  /\ LET n == Waiting(LogExporter)
         batch == [i \in 1..n |-> Reached(LogExporter) - n + i]
     IN  /\ batch \in Batch
         /\ call' = Some(batch)
         /\ posts' = posts \union {batch}
  /\ UNCHANGED <<bufferVars, topology, up, started, accepted, sent, failed, ingest,
                 handler>>

\* The handler has read the body and got the mutex.
BeginIngest ==
  /\ \E batch \in posts :
       /\ Lock(batch) /\ ingest' = Some(batch) /\ posts' = posts \ {batch}
  /\ UNCHANGED <<topology, up, started, accepted, sent, failed, call, handler>>

PutOne ==
  /\ Put
  /\ UNCHANGED <<topology, up, started, accepted, sent, failed, posts, call, ingest,
                 handler>>

BugEndIngest ==
  /\ Unlock
  /\ ingest' = None
  /\ sent' = [sent EXCEPT ![LogExporter] = @ + Len(ingest[1])]
  /\ call' = IF call = ingest THEN None ELSE call
  /\ UNCHANGED <<topology, up, started, accepted, failed, posts, handler>>
\* It answers; the answer counts if the exporter still waits for it.
EndIngest ==
  /\ Unlock
  /\ ingest' = None
  /\ IF call = ingest
     THEN /\ sent' = [sent EXCEPT ![LogExporter] = @ + Len(ingest[1])]
          /\ call' = None
     ELSE UNCHANGED <<sent, call>>
  /\ UNCHANGED <<topology, up, started, accepted, failed, posts, handler>>

\* The client gives up; the handler does not.
PostTimeout ==
  /\ call # None /\ Lost(LogExporter, Len(call[1]))
  /\ failed' = [failed EXCEPT ![LogExporter] = @ + Len(call[1])]
  /\ call' = None
  /\ UNCHANGED <<bufferVars, topology, up, started, accepted, sent, posts, ingest,
                 handler>>

\* GET and DELETE /logs.
Logs ==
  /\ up
  /\ Clear \/ \E keep \in Query : Snapshot(keep)
  /\ UNCHANGED <<topology, up, started, accepted, sent, failed, posts, call, ingest,
                 handler>>

-----------------------------------------------------------------------------
\* GET /status: asked, then scraped (or not), then answered.

Free == "free"
Asked == "asked"
Unavailable == "unavailable"   \* 503

Handle(h, state) ==
  /\ handler' = [handler EXCEPT ![h] = state]
  /\ UNCHANGED <<bufferVars, topology, up, started, accepted, sent, failed, posts, call,
                 ingest>>

Scrape(h) == handler[h] = <<Asked>> /\ Handle(h, <<"ok", buildSnapshot>>)
ScrapeFails(h) == handler[h] = <<Asked>> /\ Handle(h, <<Unavailable>>)
=============================================================================
