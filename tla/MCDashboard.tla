----------------------------- MODULE MCDashboard -----------------------------
(***************************************************************************)
(* Two instances of Dashboard for TLC, in one run.  With the topology      *)
(* Shared a dashboard is open and two pipelines share a receiver and an    *)
(* exporter.  With Logged none is open; two pipelines share a receiver and *)
(* the log buffer exporter, and one of them has a receiver and another     *)
(* exporter to itself.                                                     *)
(***************************************************************************)
EXTENDS Dashboard, TLC

CONSTANTS syslog, journal, hec, otlp, buffer, p, q

Shared ==
  [receivers |-> (p :> <<syslog>>) @@ (q :> <<syslog>>),
   exporters |-> (p :> <<hec>>) @@ (q :> <<hec>>)]
Logged ==
  [receivers |-> (p :> <<syslog>>) @@ (q :> <<syslog, journal>>),
   exporters |-> (p :> <<buffer>>) @@ (q :> <<otlp, buffer>>)]
MCTopologies == {Shared, Logged}

MCMaxAccepted == (syslog :> 1) @@ (journal :> 2)
MCMaxFailed == (hec :> 0) @@ (otlp :> 1) @@ (buffer :> 2)
MCEntry == 1..4
MCBatch == {SubSeq(<<1, 2, 3, 4>>, i, j) : i \in 1..4, j \in 1..4} \ {<< >>}
MCQuery == {{1, 3, 4}}

MCInit == Init /\ (done <=> topology = Logged)
MCSpec == MCInit /\ [][Next]_vars /\ Fairness
=============================================================================
