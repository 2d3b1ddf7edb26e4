--------------------------- MODULE PackageRollout ---------------------------
(***************************************************************************)
(* The package lane of one agent: a push or rollback records the pending   *)
(* package, offers its hash and download URL on the agent's connection,    *)
(* the agent downloads, verifies and swaps its own binary, reports, and    *)
(* restarts into it.  The uploads of PackageStore go on meanwhile.         *)
(*                                                                         *)
(* The OpAMP SDK's package syncer is not in this repository; it runs one   *)
(* sync at a time, skips a hash this process has installed, reports        *)
(* Installing, calls UpdateContent, and reports the result.                *)
(***************************************************************************)
EXTENDS PackageStore, Sequences, SequencesExt

CONSTANTS
  Works,        \* builds whose `--version` exits with 0
  Shipped,      \* the build the agent was installed with
  Requests,     \* REST requests the server handles at the same time
  Serial,       \* TRUE: operators wait until the agent has settled
  Graceful,     \* TRUE: restartDelay suffices to deliver the last status
  MaxPushes,    \* bound: pushes and rollbacks started
  MaxFailures   \* bound: lost connections and crashes of either side

ASSUME RolloutAssumption ==
  /\ Works \subseteq Builds /\ Shipped \notin Contents \union {None}
  /\ None \notin {"Installed", "InstallFailed"}
  /\ Serial \in BOOLEAN /\ Graceful \in BOOLEAN
  /\ MaxPushes \in Nat /\ MaxFailures \in Nat

Package == [version : Versions, hash : Builds]
Result  == {"Installed", "InstallFailed"}

VARIABLES
  row,       \* the agent's pending and last-known-good package, and error
  req,       \* req[r]: a handlePushPackage or handleRollbackPackage
  online,    \* the agent is connected and registered
  late,      \* statuses the server has still to read from a dead connection
  up,        \* and from the live one
  offers,    \* PackagesAvailable on the wire or waiting for the syncer
  sync,      \* the sync in progress
  done,      \* AllPackagesHash of this process
  last, out, \* the client's last package status; the one not yet sent
  bin,       \* content of the agent's binary file
  running,   \* the build this process was started from, None while down
  dying,     \* the restart timer is armed
  installed, \* history: packages that replaced the binary
  pushes, failures

serverVars == <<row, req>>
wire       == <<online, late, up, offers>>
agentVars  == <<sync, done, last, out, bin, running, dying, installed>>
vars == <<storeVars, serverVars, wire, agentVars, pushes, failures>>

Row       == [pending : Maybe(Package), lkg : Maybe(Package), err : BOOLEAN]
Request   == [pc : {"idle", "record", "send"}, pkg : Maybe(Package)]
NoRequest == [pc |-> "idle", pkg |-> None]
Sync      == [pc : {"idle", "download", "check", "swap", "arm", "report"},
              pkg : Maybe(Package), got : Maybe(Contents), ok : BOOLEAN]
NoSync    == [pc |-> "idle", pkg |-> None, got |-> None, ok |-> FALSE]

Init ==
  /\ StoreInit
  /\ row = [pending |-> None, lkg |-> None, err |-> FALSE]
  /\ req = [r \in Requests |-> NoRequest]
  /\ online = TRUE /\ late = << >> /\ up = << >> /\ offers = << >>
  /\ sync = NoSync /\ done = None /\ last = None /\ out = None
  /\ bin = Shipped /\ running = Shipped /\ dying = FALSE /\ installed = {}
  /\ pushes = 0 /\ failures = 0

-----------------------------------------------------------------------------
(* The fleet server.                                                       *)

\* Nothing of an earlier push is still on its way.
Settled ==
  /\ row.pending = None /\ \A r \in Requests : req[r].pc = "idle"
  /\ offers = << >> /\ sync.pc = "idle" /\ out = None
  /\ late = << >> /\ up = << >>
  /\ running = bin /\ ~ dying

Begin(r, pkg) ==
  /\ req[r].pc = "idle" /\ pushes < MaxPushes
  /\ Serial => Settled
  /\ req' = [req EXCEPT ![r] = [pc |-> "record", pkg |-> pkg]]
  /\ pushes' = pushes + 1
  /\ UNCHANGED <<storeVars, row, wire, agentVars, failures>>

\* handlePushPackage: getPackage finds the version.
BugKnown(v) == final[v] # None
Known(v) == packages[v] # None

PushPackage(r) ==
  \E v \in Versions :
    Known(v) /\ Begin(r, [version |-> v, hash |-> packages[v]])

\* handleRollbackPackage: the version, and the hash it had when promoted.
RollbackPackage(r) == row.lkg # None /\ Begin(r, row.lkg)

\* setPendingPackage.
RecordPending(r) ==
  /\ req[r].pc = "record"
  /\ row' = [row EXCEPT !.pending = req[r].pkg]
  /\ req' = [req EXCEPT ![r].pc = "send"]
  /\ UNCHANGED <<storeVars, wire, agentVars, pushes, failures>>

\* Its context was cancelled.
CancelPush(r) ==
  /\ req[r].pc = "record"
  /\ req' = [req EXCEPT ![r] = NoRequest]
  /\ UNCHANGED <<storeVars, row, wire, agentVars, pushes, failures>>

\* pushPackage: errAgentNotConnected leaves the push pending.
SendOffer(r) ==
  /\ req[r].pc = "send"
  /\ offers' = IF online THEN Append(offers, req[r].pkg) ELSE offers
  /\ req' = [req EXCEPT ![r] = NoRequest]
  /\ UNCHANGED <<storeVars, row, online, late, up, agentVars, pushes, failures>>

\* promotePackageToLastKnownGood, recordPackageFailure: whatever is pending.
BugRecorded(s) == [pending |-> None, lkg |-> row.pending, err |-> s # "Installed"]
BugRecordedKeeps(s) ==
  IF s = "Installed" THEN [pending |-> None, lkg |-> row.pending, err |-> FALSE]
  ELSE [row EXCEPT !.err = TRUE]
Recorded(s) ==
  IF s = "Installed" THEN [pending |-> None, lkg |-> row.pending, err |-> FALSE]
  ELSE [row EXCEPT !.pending = None, !.err = TRUE]

RecordStatus ==
  /\ \/ /\ late # << >> /\ row' = Recorded(Head(late))
        /\ late' = Tail(late) /\ UNCHANGED up
     \/ /\ up # << >> /\ row' = Recorded(Head(up))
        /\ up' = Tail(up) /\ UNCHANGED late
  /\ UNCHANGED <<storeVars, req, online, offers, agentVars, pushes, failures>>

-----------------------------------------------------------------------------
(* The agent.                                                              *)

\* Sync, each in a goroutine of its own, contend for the syncer.  One for a
\* hash installed by this process ends here.
BeginSync ==
  /\ running # None /\ sync.pc = "idle"
  /\ \E i \in DOMAIN offers :
       /\ offers' = RemoveAt(offers, i)
       /\ IF offers[i].hash = done THEN UNCHANGED <<sync, last, out>>
          ELSE /\ sync' = [NoSync EXCEPT !.pc = "download", !.pkg = offers[i]]
               /\ last' = None /\ out' = None
  /\ UNCHANGED <<storeVars, serverVars, online, late, up, done, bin, running,
                 dying, installed, pushes, failures>>

\* UpdateContent, in the order of its statements.
SyncStep(s) ==
  /\ sync' = s
  /\ UNCHANGED <<storeVars, serverVars, wire, done, last, out, pushes, failures>>

\* The candidate is streamed to a file beside the binary.
Download ==
  /\ sync.pc = "download" /\ Downloadable(sync.pkg.version)
  /\ \E x \in Downloaded(sync.pkg.version) :
       SyncStep([sync EXCEPT !.pc = "check", !.got = x])
  /\ UNCHANGED <<bin, running, dying, installed>>

\* Its hash is compared with the offered one, and it is run.
BugAccepted == sync.got \in Works
Accepted == sync.got = sync.pkg.hash /\ sync.got \in Works

Check ==
  /\ sync.pc = "check"
  /\ SyncStep([sync EXCEPT !.pc = IF Accepted THEN "swap" ELSE "report"])
  /\ UNCHANGED <<bin, running, dying, installed>>

\* os.Rename over the live binary.
Swap ==
  /\ sync.pc = "swap"
  /\ bin' = sync.got
  /\ installed' = installed \union {sync.pkg}
  /\ SyncStep([sync EXCEPT !.pc = "arm", !.ok = TRUE])
  /\ UNCHANGED <<running, dying>>

\* The AfterFunc that ends UpdateContent.
BugArms == online
Arms == TRUE

ArmRestart ==
  /\ sync.pc = "arm"
  /\ dying' = (dying \/ Arms)
  /\ SyncStep([sync EXCEPT !.pc = "report"])
  /\ UNCHANGED <<bin, running, installed>>

\* An I/O error, a download cut short or refused, or the 30 s time-out.
SyncFails ==
  /\ sync.pc \in {"download", "check", "swap"}
  /\ SyncStep([sync EXCEPT !.pc = "report"])
  /\ UNCHANGED <<bin, running, dying, installed>>

Report ==
  /\ sync.pc = "report"
  /\ last' = IF sync.ok THEN "Installed" ELSE "InstallFailed"
  /\ out' = last'
  /\ done' = IF sync.ok THEN sync.pkg.hash ELSE done
  /\ sync' = NoSync
  /\ UNCHANGED <<storeVars, serverVars, wire, bin, running, dying, installed,
                 pushes, failures>>

SendStatus ==
  /\ online /\ out # None
  /\ up' = Append(up, out) /\ out' = None
  /\ UNCHANGED <<storeVars, serverVars, online, late, offers, sync, done, last,
                 bin, running, dying, installed, pushes, failures>>

\* The first message on a new connection repeats the last status.
Connect ==
  /\ ~ online /\ running # None
  /\ online' = TRUE /\ out' = None
  /\ up' = IF last = None THEN << >> ELSE <<last>>
  /\ UNCHANGED <<storeVars, serverVars, late, offers, sync, done, last, bin,
                 running, dying, installed, pushes, failures>>

\* The connection ends; the server may read some of what it carried.
Cut(n) ==
  /\ late' = late \o SubSeq(up, 1, n)
  /\ up' = << >> /\ online' = FALSE

\* Offers the agent had not received are lost with it.
Drop ==
  /\ online /\ failures < MaxFailures
  /\ failures' = failures + 1
  /\ \E n \in 0..Len(up) : Cut(n)
  /\ \E n \in 0..Len(offers) : offers' = SubSeq(offers, 1, n)
  /\ UNCHANGED <<storeVars, serverVars, agentVars, pushes>>

Stopped ==
  /\ running # None
  /\ running' = None /\ sync' = NoSync /\ done' = None
  /\ last' = None /\ out' = None /\ dying' = FALSE /\ offers' = << >>
  /\ UNCHANGED <<storeVars, serverVars, bin, installed, pushes>>

\* The timer's SIGTERM.
Restart ==
  /\ dying /\ (Graceful /\ online => out = None /\ sync.pc # "report")
  /\ Stopped
  /\ \E n \in 0..Len(up) : (Graceful => n = Len(up)) /\ Cut(n)
  /\ UNCHANGED failures

Crash ==
  /\ failures < MaxFailures /\ failures' = failures + 1
  /\ Stopped
  /\ \E n \in 0..Len(up) : Cut(n)

\* systemd starts the binary as it is now.
Start ==
  /\ running = None /\ running' = bin
  /\ UNCHANGED <<storeVars, serverVars, wire, sync, done, last, out, bin, dying,
                 installed, pushes, failures>>

ServerCrash ==
  /\ failures < MaxFailures /\ failures' = failures + 1
  /\ StoreCrash
  /\ req' = [r \in Requests |-> NoRequest]
  /\ online' = FALSE /\ late' = << >> /\ up' = << >>
  /\ \E n \in 0..Len(offers) : offers' = SubSeq(offers, 1, n)
  /\ UNCHANGED <<row, agentVars, pushes>>

-----------------------------------------------------------------------------

StoreStep ==
  /\ \E u \in Uploads : UploadStep(u)
  /\ UNCHANGED <<serverVars, wire, agentVars, pushes, failures>>

RequestStep(r) == RecordPending(r) \/ SendOffer(r)

Install == Download \/ Check \/ Swap \/ ArmRestart \/ SyncFails \/ Report

Next ==
  \/ StoreStep
  \/ \E r \in Requests :
       PushPackage(r) \/ RollbackPackage(r) \/ CancelPush(r) \/ RequestStep(r)
  \/ RecordStatus \/ BeginSync \/ Install \/ SendStatus \/ Connect
  \/ Restart \/ Start
  \/ Drop \/ Crash \/ ServerCrash

Spec == Init /\ [][Next]_vars

\* Goroutines run, the client reconnects, systemd restarts the agent.
FairSpec ==
  /\ Spec
  /\ \A r \in Requests : WF_vars(RequestStep(r))
  /\ WF_vars(RecordStatus) /\ WF_vars(BeginSync) /\ WF_vars(Install)
  /\ WF_vars(SendStatus) /\ WF_vars(Connect)
  /\ WF_vars(Restart) /\ WF_vars(Start)
-----------------------------------------------------------------------------
(* Properties.                                                             *)

LaneTypeOK ==
  /\ row \in Row
  /\ req \in [Requests -> Request]
  /\ online \in BOOLEAN
  /\ late \in Seq(Result) /\ up \in Seq(Result)
  /\ offers \in Seq(Package)
  /\ sync \in Sync
  /\ done \in Maybe(Builds)
  /\ last \in Maybe(Result) /\ out \in Maybe(Result)
  /\ bin \in Builds \union {Shipped}
  /\ running \in Builds \union {Shipped, None}
  /\ dying \in BOOLEAN
  /\ installed \subseteq Package
  /\ pushes \in 0..MaxPushes /\ failures \in 0..MaxFailures

\* Every variable keeps the shape the code gives it.
TypeOK == StoreTypeOK /\ LaneTypeOK

\* Whatever uploads run into one another, are cut off or repeated while an
\* agent downloads, its binary file is the one it shipped with or a whole
\* build that was published and that runs (UpdateContent: "Any failure at any
\* step leaves the live binary completely untouched").
BinaryWasPublished == bin \in {Shipped} \union (published \intersect Works)

\* handleRollbackPackage "re-pushes an agent's last-known-good package": it
\* was installed on the agent, if operators let it settle between pushes.
LkgWasInstalled == row.lkg \in Maybe(installed)

\* Whatever fails, the agent ends up running the binary that is in place: no
\* installed build is left unstarted (the AfterFunc of UpdateContent).
RunsItsBinary == <>[](running = bin)

\* While the network and the processes hold, an offer is answered, also one
\* whose bytes were replaced after it was recorded: the push does not stay
\* pending ("turns into an InstallFailed status back to the fleet server").
OfferResolved ==
  [](failures = 0) => (sync.pc = "download" ~> row.pending = None)
=============================================================================
