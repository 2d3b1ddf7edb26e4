------------------------ MODULE PackageRolloutProofs ------------------------
(***************************************************************************)
(* What PackageRollout guarantees for any number of versions, builds,      *)
(* uploads and requests, whatever the operators do and whatever fails.     *)
(***************************************************************************)
EXTENDS PackageRollout, PackageStoreProofs, SequenceTheorems

LEMMA HeadTailTyped ==
  ASSUME NEW S, NEW s \in Seq(S), s # << >>
  PROVE  Head(s) \in S /\ Tail(s) \in Seq(S)
BY HeadTailProperties

LEMMA PrefixTyped ==
  ASSUME NEW S, NEW s \in Seq(S), NEW n \in 0..Len(s)
  PROVE  SubSeq(s, 1, n) \in Seq(S)
<1>1. n \in Nat /\ n <= Len(s) /\ Len(s) \in Nat
  BY LenProperties
<1> QED
  BY <1>1, SubSeqProperties

LEMMA RemoveAtTyped ==
  ASSUME NEW S, NEW s \in Seq(S), NEW i \in DOMAIN s
  PROVE  s[i] \in S /\ RemoveAt(s, i) \in Seq(S)
<1>1. i \in 1..Len(s) /\ Len(s) \in Nat
  BY LenProperties
<1>2. SubSeq(s, 1, i - 1) \in Seq(S)
  BY <1>1, SubSeqProperties
<1>3. SubSeq(s, i + 1, Len(s)) \in Seq(S)
  BY <1>1, SubSeqProperties
<1>4. s[i] \in S
  BY <1>1, ElementOfSeq
<1> QED
  BY <1>2, <1>3, <1>4, ConcatProperties DEF RemoveAt

-----------------------------------------------------------------------------
(* The store, under the steps of the whole lane.                           *)

LEMMA StoreOfNext == [Next]_vars => [StoreNext]_storeVars
<1>1. ASSUME Next
      PROVE  StoreNext \/ UNCHANGED storeVars
  <2>1. CASE StoreStep
    BY <2>1 DEF StoreStep, StoreNext
  <2>2. CASE ServerCrash
    BY <2>2 DEF ServerCrash, StoreNext
  <2>3. CASE \E r \in Requests :
               PushPackage(r) \/ RollbackPackage(r) \/ CancelPush(r)
                 \/ RequestStep(r)
    BY <2>3 DEF PushPackage, RollbackPackage, Begin, CancelPush, RequestStep,
                RecordPending, SendOffer
  <2>4. CASE RecordStatus \/ BeginSync \/ Install \/ SendStatus \/ Connect
    BY <2>4 DEF RecordStatus, BeginSync, Install, Download, Check, Swap,
                ArmRestart, SyncFails, Report, SyncStep, SendStatus, Connect
  <2>5. CASE Restart \/ Start \/ Drop \/ Crash
    BY <2>5 DEF Restart, Start, Drop, Crash, Stopped
  <2> QED
    BY <1>1, <2>1, <2>2, <2>3, <2>4, <2>5 DEF Next
<1>2. UNCHANGED vars => UNCHANGED storeVars
  BY DEF vars
<1> QED
  BY <1>1, <1>2

\* A version that no upload is working on serves the bytes whose hash the
\* table has, unless its last upload met another or was cut off
\* (handleUploadPackage's temp file, rename and recordPackage).
THEOREM ServesAlways == Spec => []ServesRecorded
<1>1. Init => StoreInv
  BY StoreInvInit DEF Init
<1>2. StoreInv /\ [Next]_vars => StoreInv'
  BY StoreInvStep, StoreOfNext
<1>3. StoreInv => ServesRecorded
  BY StoreServes
<1> QED
  BY <1>1, <1>2, <1>3, PTL DEF Spec
-----------------------------------------------------------------------------

\* What is at work on a package has one, and what is about to be swapped in
\* has been checked.
WorkShape ==
  /\ \A r \in Requests : req[r].pc # "idle" => req[r].pkg \in Package
  /\ sync.pc # "idle" => sync.pkg \in Package
  /\ sync.pc \in {"check", "swap"} => sync.got \in Contents
  /\ sync.pc = "swap" => sync.got = sync.pkg.hash /\ sync.got \in Works

Typed == StoreInv /\ LaneTypeOK /\ WorkShape

LEMMA LaneConstants ==
  /\ Works \subseteq Builds /\ Builds \subseteq Contents
  /\ None \notin Builds \union {Shipped} /\ MaxPushes \in Nat
  /\ MaxFailures \in Nat /\ None \notin Versions
BY RolloutAssumption, StoreAssumption DEF Contents

LEMMA TypedInit == Init => Typed
<1> SUFFICES ASSUME Init
             PROVE  Typed
  OBVIOUS
<1>1. StoreInv
  BY StoreInvInit DEF Init
<1>2. LaneTypeOK
  <2>1. row \in Row /\ sync \in Sync
    BY DEF Init, Row, Sync, NoSync, Maybe
  <2>2. req \in [Requests -> Request]
    BY DEF Init, Request, NoRequest, Maybe
  <2>3. late \in Seq(Result) /\ up \in Seq(Result) /\ offers \in Seq(Package)
    BY EmptySeq DEF Init
  <2>4. pushes \in 0..MaxPushes /\ failures \in 0..MaxFailures
    BY LaneConstants DEF Init
  <2> QED
    BY <2>1, <2>2, <2>3, <2>4 DEF Init, LaneTypeOK, Maybe
<1>3. WorkShape
  BY DEF Init, WorkShape, NoRequest, NoSync
<1> QED
  BY <1>1, <1>2, <1>3 DEF Typed

\* Requests.
LEMMA RequestTyped ==
  ASSUME Typed, NEW r \in Requests,
         PushPackage(r) \/ RollbackPackage(r) \/ CancelPush(r) \/ RequestStep(r)
  PROVE  LaneTypeOK' /\ WorkShape'
<1>0. LaneTypeOK /\ WorkShape /\ req \in [Requests -> Request]
      /\ packages \in [Versions -> Maybe(Builds)]
  BY DEF Typed, LaneTypeOK, StoreInv, StoreTyped, StoreTypeOK
<1>1. ASSUME NEW pkg \in Package, Begin(r, pkg)
      PROVE  LaneTypeOK' /\ WorkShape'
  <2>1. \A x \in Requests : req'[x] =
          IF x = r THEN [pc |-> "record", pkg |-> pkg] ELSE req[x]
    BY <1>0, <1>1 DEF Begin
  <2>2. req' \in [Requests -> Request]
    BY <1>0, <1>1, <2>1 DEF Begin, Request, Maybe
  <2>3. pushes' \in 0..MaxPushes
    BY <1>0, <1>1, LaneConstants DEF Begin, LaneTypeOK
  <2>4. UNCHANGED <<row, wire, agentVars, failures>>
    BY <1>1 DEF Begin
  <2>5. LaneTypeOK'
    BY <1>0, <2>2, <2>3, <2>4 DEF LaneTypeOK, wire, agentVars
  <2>6. WorkShape'
    BY <1>0, <2>1, <2>4 DEF WorkShape, agentVars
  <2> QED
    BY <2>5, <2>6
<1>2. CASE PushPackage(r)
  <2>1. PICK v \in Versions :
          Known(v) /\ Begin(r, [version |-> v, hash |-> packages[v]])
    BY <1>2 DEF PushPackage
  <2>2. [version |-> v, hash |-> packages[v]] \in Package
    BY <1>0, <2>1 DEF Known, Package, Maybe
  <2> QED
    BY <1>1, <2>1, <2>2
<1>3. CASE RollbackPackage(r)
  <2>1. row.lkg \in Package
    BY <1>0, <1>3 DEF RollbackPackage, LaneTypeOK, Row, Maybe
  <2> QED
    BY <1>1, <1>3, <2>1 DEF RollbackPackage
<1>4. CASE CancelPush(r)
  <2>1. req' \in [Requests -> Request]
    BY <1>0, <1>4 DEF CancelPush, Request, NoRequest, Maybe
  <2>2. LaneTypeOK'
    BY <1>0, <1>4, <2>1 DEF CancelPush, LaneTypeOK, wire, agentVars
  <2>3. WorkShape'
    BY <1>0, <1>4 DEF CancelPush, WorkShape, NoRequest, agentVars
  <2> QED
    BY <2>2, <2>3
<1>5. CASE RecordPending(r)
  <2>1. req[r].pkg \in Package /\ req[r] \in Request
    BY <1>0, <1>5 DEF RecordPending, WorkShape
  <2>2. \A x \in Requests : req'[x] =
          IF x = r THEN [req[r] EXCEPT !.pc = "send"] ELSE req[x]
    BY <1>0, <1>5 DEF RecordPending
  <2>3. [req[r] EXCEPT !.pc = "send"] \in Request
        /\ [req[r] EXCEPT !.pc = "send"].pkg = req[r].pkg
    BY <2>1 DEF Request
  <2>4. req' \in [Requests -> Request]
    BY <1>0, <1>5, <2>2, <2>3 DEF RecordPending
  <2>5. row' \in Row
    BY <1>0, <1>5, <2>1 DEF RecordPending, LaneTypeOK, Row, Maybe
  <2>6. LaneTypeOK'
    BY <1>0, <1>5, <2>4, <2>5 DEF RecordPending, LaneTypeOK, wire, agentVars
  <2>7. WorkShape'
    BY <1>0, <1>5, <2>1, <2>2, <2>3 DEF RecordPending, WorkShape, agentVars
  <2> QED
    BY <2>6, <2>7
<1>6. CASE SendOffer(r)
  <2>1. req[r].pkg \in Package /\ offers \in Seq(Package)
    BY <1>0, <1>6 DEF SendOffer, WorkShape, LaneTypeOK
  <2>2. offers' \in Seq(Package)
    BY <1>6, <2>1, AppendProperties DEF SendOffer
  <2>3. req' \in [Requests -> Request]
    BY <1>0, <1>6 DEF SendOffer, Request, NoRequest, Maybe
  <2>4. LaneTypeOK'
    BY <1>0, <1>6, <2>2, <2>3 DEF SendOffer, LaneTypeOK, agentVars
  <2>5. WorkShape'
    BY <1>0, <1>6 DEF SendOffer, WorkShape, NoRequest, agentVars
  <2> QED
    BY <2>4, <2>5
<1> QED
  BY <1>2, <1>3, <1>4, <1>5, <1>6 DEF RequestStep

\* The agent's syncer, UpdateContent included.
LEMMA SyncTyped ==
  ASSUME Typed, BeginSync \/ Install
  PROVE  LaneTypeOK' /\ WorkShape'
<1>0. /\ LaneTypeOK /\ WorkShape /\ sync \in Sync /\ offers \in Seq(Package)
      /\ data \in [Inodes -> Contents]
      /\ final \in [Versions -> Maybe(Inodes)]
  BY DEF Typed, LaneTypeOK, StoreInv, StoreTyped, StoreTypeOK
<1>1. CASE BeginSync
  <2>1. PICK i \in DOMAIN offers :
          /\ offers' = RemoveAt(offers, i)
          /\ IF offers[i].hash = done THEN UNCHANGED <<sync, last, out>>
             ELSE /\ sync' = [NoSync EXCEPT !.pc = "download", !.pkg = offers[i]]
                  /\ last' = None /\ out' = None
    BY <1>1 DEF BeginSync
  <2>2. offers[i] \in Package /\ offers' \in Seq(Package)
    BY <1>0, <2>1, RemoveAtTyped
  <2>3. sync' \in Sync /\ last' \in Maybe(Result) /\ out' \in Maybe(Result)
    <3>1. /\ sync \in Sync /\ last \in Maybe(Result) /\ out \in Maybe(Result)
          /\ None \in Maybe(Result)
      BY <1>0 DEF LaneTypeOK, Maybe
    <3>2. ASSUME NEW pkg \in Package
          PROVE  [NoSync EXCEPT !.pc = "download", !.pkg = pkg] \in Sync
      BY DEF Sync, NoSync, Maybe
    <3> QED
      BY <2>1, <2>2, <3>1, <3>2, Zenon
  <2>4. LaneTypeOK'
    BY <1>0, <1>1, <2>2, <2>3 DEF BeginSync, LaneTypeOK, serverVars
  <2>5. WorkShape'
    <3>1. req' = req
      BY <1>1 DEF BeginSync, serverVars
    <3>2. sync' = sync \/ (sync'.pc = "download" /\ sync'.pkg \in Package)
      BY <2>1, <2>2 DEF NoSync
    <3> QED
      BY <1>0, <3>1, <3>2 DEF WorkShape
  <2> QED
    BY <2>4, <2>5
<1>2. CASE Download
  <2>1. PICK x \in Downloaded(sync.pkg.version) :
          SyncStep([sync EXCEPT !.pc = "check", !.got = x])
    BY <1>2 DEF Download
  <2>2. sync.pkg \in Package /\ final[sync.pkg.version] # None
    BY <1>0, <1>2 DEF Download, Downloadable, WorkShape
  <2>3. x \in Contents
    BY <1>0, <2>1, <2>2, StoreConstants DEF Downloaded, Package, Maybe
  <2>4. sync' \in Sync /\ sync'.pkg = sync.pkg /\ sync'.got = x
        /\ sync'.pc = "check"
    BY <1>0, <2>1, <2>3 DEF SyncStep, Sync, Maybe
  <2>5. LaneTypeOK'
    BY <1>0, <1>2, <2>1, <2>4
    DEF Download, SyncStep, LaneTypeOK, serverVars, wire
  <2>6. WorkShape'
    BY <1>0, <2>1, <2>2, <2>3, <2>4 DEF SyncStep, WorkShape, serverVars
  <2> QED
    BY <2>5, <2>6
<1>3. CASE Check \/ SyncFails \/ ArmRestart
  <2>1. PICK p \in {"swap", "report"} :
          /\ SyncStep([sync EXCEPT !.pc = p])
          /\ p = "swap" => Accepted
          /\ UNCHANGED <<bin, running, installed>> /\ dying' \in BOOLEAN
          /\ sync.pc # "idle"
    BY <1>0, <1>3 DEF Check, SyncFails, ArmRestart, Arms, LaneTypeOK
  <2>2. /\ sync' \in Sync /\ sync'.pkg = sync.pkg /\ sync'.got = sync.got
        /\ sync'.pc = p
    BY <1>0, <2>1 DEF SyncStep, Sync
  <2>3. LaneTypeOK'
    BY <1>0, <2>1, <2>2 DEF SyncStep, LaneTypeOK, serverVars, wire
  <2>4. sync.pkg \in Package
    BY <1>0, <2>1 DEF WorkShape
  <2>5. WorkShape'
    BY <1>0, <2>1, <2>2, <2>4, LaneConstants
    DEF SyncStep, WorkShape, serverVars, Accepted
  <2> QED
    BY <2>3, <2>5
<1>4. CASE Swap
  <2>1. sync.pkg \in Package /\ sync.got \in Builds
    BY <1>0, <1>4, LaneConstants DEF Swap, WorkShape
  <2>2. sync' \in Sync /\ sync'.pkg = sync.pkg /\ sync'.pc = "arm"
    BY <1>0, <1>4 DEF Swap, SyncStep, Sync
  <2>3. LaneTypeOK'
    BY <1>0, <1>4, <2>1, <2>2 DEF Swap, SyncStep, LaneTypeOK, serverVars, wire
  <2>4. WorkShape'
    BY <1>0, <1>4, <2>1, <2>2 DEF Swap, SyncStep, WorkShape, serverVars
  <2> QED
    BY <2>3, <2>4
<1>5. CASE Report
  <2>1. sync.pkg \in Package
    BY <1>0, <1>5 DEF Report, WorkShape
  <2>2. /\ last' \in Maybe(Result) /\ out' \in Maybe(Result)
        /\ done' \in Maybe(Builds) /\ sync' \in Sync
    BY <1>0, <1>5, <2>1
    DEF Report, LaneTypeOK, Result, Maybe, Sync, NoSync, Package
  <2>3. LaneTypeOK'
    BY <1>0, <1>5, <2>2 DEF Report, LaneTypeOK, serverVars, wire
  <2>4. WorkShape'
    BY <1>0, <1>5 DEF Report, WorkShape, serverVars, NoSync
  <2> QED
    BY <2>3, <2>4
<1> QED
  BY <1>1, <1>2, <1>3, <1>4, <1>5 DEF Install

\* Statuses, connections and processes.
LEMMA WireTyped ==
  ASSUME Typed,
         RecordStatus \/ SendStatus \/ Connect \/ Drop \/ Restart \/ Crash
           \/ Start \/ ServerCrash
  PROVE  LaneTypeOK' /\ WorkShape'
<1>0. /\ LaneTypeOK /\ WorkShape
      /\ late \in Seq(Result) /\ up \in Seq(Result) /\ offers \in Seq(Package)
  BY DEF Typed, LaneTypeOK
<1>1. CASE RecordStatus
  <2>1. /\ late' \in Seq(Result) /\ up' \in Seq(Result)
        /\ \E s : row' = Recorded(s)
    BY <1>0, <1>1, HeadTailTyped DEF RecordStatus
  <2>2. row' \in Row
    <3>1. PICK s : row' = Recorded(s)
      BY <2>1
    <3>2. row \in Row
      BY <1>0 DEF LaneTypeOK
    <3> QED
      BY <3>1, <3>2 DEF Recorded, Row, Maybe
  <2>3. LaneTypeOK'
    BY <1>0, <1>1, <2>1, <2>2 DEF RecordStatus, LaneTypeOK, agentVars
  <2>4. WorkShape'
    BY <1>0, <1>1 DEF RecordStatus, WorkShape, agentVars
  <2> QED
    BY <2>3, <2>4
<1>2. CASE SendStatus
  <2>1. out \in Result
    BY <1>0, <1>2 DEF SendStatus, LaneTypeOK, Maybe
  <2>2. up' \in Seq(Result) /\ out' \in Maybe(Result)
    BY <1>0, <1>2, <2>1, AppendProperties DEF SendStatus, Maybe
  <2>3. LaneTypeOK'
    BY <1>0, <1>2, <2>2 DEF SendStatus, LaneTypeOK, serverVars
  <2>4. WorkShape'
    BY <1>0, <1>2 DEF SendStatus, WorkShape, serverVars
  <2> QED
    BY <2>3, <2>4
<1>3. CASE Connect
  <2>1. up' \in Seq(Result)
    <3>1. CASE last = None
      BY <1>3, <3>1, EmptySeq DEF Connect
    <3>2. CASE last # None
      <4>1. last \in Result /\ up' = <<last>>
        BY <1>0, <1>3, <3>2 DEF Connect, LaneTypeOK, Maybe
      <4> QED
        BY <4>1
    <3> QED
      BY <3>1, <3>2
  <2>2. LaneTypeOK'
    BY <1>0, <1>3, <2>1 DEF Connect, LaneTypeOK, serverVars, Maybe
  <2>3. WorkShape'
    BY <1>0, <1>3 DEF Connect, WorkShape, serverVars
  <2> QED
    BY <2>2, <2>3
<1>4. ASSUME NEW n \in 0..Len(up), Cut(n)
      PROVE  late' \in Seq(Result) /\ up' \in Seq(Result) /\ online' \in BOOLEAN
  <2>1. SubSeq(up, 1, n) \in Seq(Result)
    BY <1>0, <1>4, PrefixTyped
  <2> QED
    BY <1>0, <1>4, <2>1, ConcatProperties, EmptySeq DEF Cut
<1>5. ASSUME failures < MaxFailures, failures' = failures + 1
      PROVE  failures' \in 0..MaxFailures
  BY <1>0, <1>5, LaneConstants DEF LaneTypeOK
<1>6. CASE Drop
  <2>1. late' \in Seq(Result) /\ up' \in Seq(Result) /\ online' \in BOOLEAN
    BY <1>4, <1>6 DEF Drop
  <2>2. offers' \in Seq(Package) /\ failures' \in 0..MaxFailures
    BY <1>0, <1>5, <1>6, PrefixTyped DEF Drop
  <2>3. LaneTypeOK'
    BY <1>0, <1>6, <2>1, <2>2 DEF Drop, LaneTypeOK, serverVars, agentVars
  <2>4. WorkShape'
    BY <1>0, <1>6 DEF Drop, WorkShape, serverVars, agentVars
  <2> QED
    BY <2>3, <2>4
<1>7. CASE Restart \/ Crash
  <2>1. late' \in Seq(Result) /\ up' \in Seq(Result) /\ online' \in BOOLEAN
    BY <1>4, <1>7 DEF Restart, Crash
  <2>2. Stopped /\ failures' \in 0..MaxFailures
    BY <1>0, <1>5, <1>7 DEF Restart, Crash, LaneTypeOK
  <2>3. /\ offers' \in Seq(Package) /\ sync' \in Sync /\ done' \in Maybe(Builds)
        /\ last' \in Maybe(Result) /\ out' \in Maybe(Result)
    BY <2>2, EmptySeq DEF Stopped, Sync, NoSync, Maybe
  <2>4. LaneTypeOK'
    BY <1>0, <2>1, <2>2, <2>3 DEF Stopped, LaneTypeOK, serverVars
  <2>5. WorkShape'
    BY <1>0, <2>2 DEF Stopped, WorkShape, serverVars, NoSync
  <2> QED
    BY <2>4, <2>5
<1>8. CASE Start
  <2>1. LaneTypeOK'
    BY <1>0, <1>8 DEF Start, LaneTypeOK, serverVars, wire
  <2>2. WorkShape'
    BY <1>0, <1>8 DEF Start, WorkShape, serverVars
  <2> QED
    BY <2>1, <2>2
<1>9. CASE ServerCrash
  <2>1. offers' \in Seq(Package) /\ failures' \in 0..MaxFailures
    BY <1>0, <1>5, <1>9, PrefixTyped DEF ServerCrash
  <2>2. /\ req' \in [Requests -> Request] /\ late' \in Seq(Result)
        /\ up' \in Seq(Result)
    BY <1>9, EmptySeq DEF ServerCrash, Request, NoRequest, Maybe
  <2>3. LaneTypeOK'
    BY <1>0, <1>9, <2>1, <2>2 DEF ServerCrash, LaneTypeOK, agentVars
  <2>4. WorkShape'
    BY <1>0, <1>9 DEF ServerCrash, WorkShape, NoRequest, agentVars
  <2> QED
    BY <2>3, <2>4
<1> QED
  BY <1>1, <1>2, <1>3, <1>6, <1>7, <1>8, <1>9

-----------------------------------------------------------------------------

LEMMA TypedStep ==
  ASSUME Typed, [Next]_vars
  PROVE  Typed'
<1>1. StoreInv'
  BY StoreOfNext, StoreInvStep DEF Typed
<1>2. CASE StoreStep
  <2>1. UNCHANGED <<serverVars, wire, agentVars, pushes, failures>>
    BY <1>2 DEF StoreStep
  <2>2. LaneTypeOK' /\ WorkShape'
    BY <2>1 DEF Typed, LaneTypeOK, WorkShape, serverVars, wire, agentVars
  <2> QED
    BY <1>1, <2>2 DEF Typed
<1>3. CASE \E r \in Requests :
             PushPackage(r) \/ RollbackPackage(r) \/ CancelPush(r)
               \/ RequestStep(r)
  BY <1>1, <1>3, RequestTyped DEF Typed
<1>4. CASE BeginSync \/ Install
  BY <1>1, <1>4, SyncTyped DEF Typed
<1>5. CASE RecordStatus \/ SendStatus \/ Connect \/ Drop \/ Restart \/ Crash
             \/ Start \/ ServerCrash
  BY <1>1, <1>5, WireTyped DEF Typed
<1>6. CASE UNCHANGED vars
  <2>1. LaneTypeOK' /\ WorkShape'
    BY <1>6
    DEF Typed, LaneTypeOK, WorkShape, vars, serverVars, wire, agentVars
  <2> QED
    BY <1>1, <2>1 DEF Typed
<1> QED
  BY <1>2, <1>3, <1>4, <1>5, <1>6 DEF Next

\* The variables keep the shape the code gives them; in particular a push only
\* ever has a version of which the table has a hash (handlePushPackage).
THEOREM TypeCorrect == Spec => []TypeOK
<1>1. Typed => TypeOK
  BY DEF Typed, TypeOK, StoreInv, StoreTyped
<1> QED
  BY <1>1, TypedInit, TypedStep, PTL DEF Spec

-----------------------------------------------------------------------------

\* Packages whose hash is of a published build.
Released == {p \in Package : p.hash \in published}

\* What is stored for the agent, on its way or at work is in S, and so is the
\* package whose build was swapped in.
Carries(S) ==
  /\ row.pending \in Maybe(S) /\ row.lkg \in Maybe(S)
  /\ \A r \in Requests : req[r].pc # "idle" => req[r].pkg \in S
  /\ offers \in Seq(S)
  /\ sync.pc # "idle" => sync.pkg \in S
  /\ bin # Shipped => bin \in Works /\ \E p \in S : p.hash = bin

TableReleased == \A v \in Versions : packages[v] \in Maybe(published)

LEMMA TableStep ==
  ASSUME StoreTyped, TableReleased, [StoreNext]_storeVars
  PROVE  published \subseteq published' /\ TableReleased'
<1>0. packages \in [Versions -> Maybe(Builds)]
  BY DEF StoreTyped, StoreTypeOK
<1>1. CASE \E u \in Uploads : RecordPackage(u)
  BY <1>0, <1>1 DEF RecordPackage, TableReleased, Maybe
<1>2. CASE ~ \E u \in Uploads : RecordPackage(u)
  <2>1. UNCHANGED <<packages, published>>
    BY <1>2
    DEF StoreNext, storeVars, UploadStep, OpenUpload, Copy, CopyFails,
        RenameUpload, RenameFails, RecordFails, StoreCrash, AbandonUpload
  <2> QED
    BY <2>1 DEF TableReleased
<1> QED
  BY <1>1, <1>2

LEMMA CarriesRequest ==
  ASSUME NEW CONSTANT S, Typed, Carries(S), NEW r \in Requests,
         \A v \in Versions : Known(v) =>
           [version |-> v, hash |-> packages[v]] \in S,
         PushPackage(r) \/ RollbackPackage(r) \/ CancelPush(r) \/ RequestStep(r)
  PROVE  Carries(S)'
<1>0. req \in [Requests -> Request] /\ sync' = sync /\ bin' = bin
  BY DEF Typed, LaneTypeOK, PushPackage, RollbackPackage, Begin, CancelPush,
         RequestStep, RecordPending, SendOffer, agentVars
<1>1. ASSUME NEW pkg \in S, Begin(r, pkg)
      PROVE  Carries(S)'
  BY <1>0, <1>1 DEF Begin, Carries, wire
<1>2. CASE PushPackage(r)
  BY <1>1, <1>2 DEF PushPackage
<1>3. CASE RollbackPackage(r)
  BY <1>1, <1>3 DEF RollbackPackage, Carries, Maybe
<1>4. CASE CancelPush(r)
  BY <1>0, <1>4 DEF CancelPush, Carries, wire, NoRequest
<1>5. CASE RecordPending(r)
  <2>1. req[r].pkg \in S /\ req[r] \in Request /\ row \in Row
    BY <1>0, <1>5 DEF RecordPending, Carries, Typed, LaneTypeOK
  <2>2. row'.pending = req[r].pkg /\ row'.lkg = row.lkg
    BY <1>5, <2>1 DEF RecordPending, Row
  <2>3. \A x \in Requests : req'[x].pkg = req[x].pkg
                            /\ (x # r => req'[x].pc = req[x].pc)
    BY <1>0, <1>5, <2>1 DEF RecordPending, Request
  <2> QED
    BY <1>0, <1>5, <2>1, <2>2, <2>3 DEF RecordPending, Carries, wire, Maybe
<1>6. CASE SendOffer(r)
  <2>1. req[r].pkg \in S
    BY <1>6 DEF SendOffer, Carries
  <2>2. offers' \in Seq(S)
    BY <1>6, <2>1, AppendProperties DEF SendOffer, Carries
  <2> QED
    BY <1>0, <1>6, <2>2 DEF SendOffer, Carries, NoRequest
<1> QED
  BY <1>2, <1>3, <1>4, <1>5, <1>6 DEF RequestStep

LEMMA CarriesSync ==
  ASSUME NEW CONSTANT S, Typed, Carries(S), BeginSync \/ Install
  PROVE  Carries(S)'
<1>0. sync \in Sync /\ UNCHANGED serverVars
  BY DEF Typed, LaneTypeOK, BeginSync, Install, Download, Check, Swap,
         ArmRestart, SyncFails, Report, SyncStep
<1>1. CASE BeginSync
  <2>1. PICK i \in DOMAIN offers :
          /\ offers' = RemoveAt(offers, i)
          /\ IF offers[i].hash = done THEN UNCHANGED <<sync, last, out>>
             ELSE /\ sync' = [NoSync EXCEPT !.pc = "download", !.pkg = offers[i]]
                  /\ last' = None /\ out' = None
    BY <1>1 DEF BeginSync
  <2>2. offers[i] \in S /\ offers' \in Seq(S)
    BY <2>1, RemoveAtTyped DEF Carries
  <2>3. sync'.pc # "idle" => sync'.pkg \in S
    BY <2>1, <2>2 DEF Carries, NoSync
  <2> QED
    BY <1>0, <1>1, <2>2, <2>3 DEF BeginSync, Carries, serverVars
<1>2. CASE Download \/ Check \/ ArmRestart \/ SyncFails
  <2>1. /\ sync'.pkg = sync.pkg /\ sync.pc # "idle" /\ offers' = offers
        /\ bin' = bin
    BY <1>0, <1>2
    DEF Download, Check, ArmRestart, SyncFails, SyncStep, Sync, wire
  <2> QED
    BY <1>0, <2>1 DEF Carries, serverVars
<1>3. CASE Swap
  <2>1. /\ sync'.pkg = sync.pkg /\ sync.pkg \in S /\ offers' = offers
        /\ bin' = sync.pkg.hash /\ bin' \in Works
    BY <1>0, <1>3 DEF Swap, SyncStep, Sync, wire, Carries, Typed, WorkShape
  <2> QED
    BY <1>0, <2>1 DEF Carries, serverVars
<1>4. CASE Report
  BY <1>0, <1>4 DEF Report, Carries, serverVars, wire, NoSync
<1> QED
  BY <1>1, <1>2, <1>3, <1>4 DEF Install

LEMMA CarriesWire ==
  ASSUME NEW CONSTANT S, Typed, Carries(S),
         RecordStatus \/ SendStatus \/ Connect \/ Drop \/ Restart \/ Crash
           \/ Start \/ ServerCrash
  PROVE  Carries(S)'
<1>1. CASE RecordStatus
  <2>1. PICK s : row' = Recorded(s)
    BY <1>1 DEF RecordStatus
  <2>2. row \in Row
    BY DEF Typed, LaneTypeOK
  <2>3. row'.pending = None /\ row'.lkg \in {row.pending, row.lkg}
    BY <2>1, <2>2 DEF Recorded, Row
  <2> QED
    BY <1>1, <2>3 DEF RecordStatus, Carries, agentVars, Maybe
<1>2. CASE SendStatus \/ Connect \/ Start
  BY <1>2 DEF SendStatus, Connect, Start, Carries, serverVars, wire
<1>3. CASE Drop
  <2>1. offers' \in Seq(S)
    BY <1>3, PrefixTyped DEF Drop, Carries
  <2> QED
    BY <1>3, <2>1 DEF Drop, Carries, serverVars, agentVars
<1>4. CASE Restart \/ Crash
  <2>0. Stopped
    BY <1>4 DEF Restart, Crash
  <2>1. /\ offers' = << >> /\ sync'.pc = "idle"
        /\ UNCHANGED <<row, req, bin>>
    BY <2>0 DEF Stopped, NoSync, serverVars
  <2>2. offers' \in Seq(S)
    BY <2>1, EmptySeq
  <2> QED
    BY <2>1, <2>2 DEF Carries
<1>5. CASE ServerCrash
  <2>1. offers' \in Seq(S)
    BY <1>5, PrefixTyped DEF ServerCrash, Carries
  <2> QED
    BY <1>5, <2>1 DEF ServerCrash, Carries, NoRequest, agentVars
<1> QED
  BY <1>1, <1>2, <1>3, <1>4, <1>5

LEMMA CarriesStep ==
  ASSUME NEW CONSTANT S, Typed, Carries(S), [Next]_vars,
         \A v \in Versions : Known(v) =>
           [version |-> v, hash |-> packages[v]] \in S
  PROVE  Carries(S)'
<1>1. CASE StoreStep \/ UNCHANGED vars
  BY <1>1 DEF StoreStep, Carries, vars, serverVars, wire, agentVars
<1> QED
  BY <1>1, CarriesRequest, CarriesSync, CarriesWire DEF Next

BinInv == Typed /\ TableReleased /\ Carries(Released)

\* The agent's binary file is always the one it shipped with or a whole build
\* that some upload published and that `--version` accepts, whatever uploads,
\* requests, connections and processes do (UpdateContent's order of hash
\* check, version check and rename).
THEOREM BinaryPublished == Spec => []BinaryWasPublished
<1>1. Init => BinInv
  <2> SUFFICES ASSUME Init
               PROVE  BinInv
    OBVIOUS
  <2>1. TableReleased
    BY DEF Init, StoreInit, TableReleased, Maybe
  <2>2. Carries(Released)
    BY EmptySeq DEF Init, Carries, NoRequest, NoSync, Maybe
  <2> QED
    BY <2>1, <2>2, TypedInit DEF BinInv
<1>2. BinInv /\ [Next]_vars => BinInv'
  <2> SUFFICES ASSUME BinInv, [Next]_vars
               PROVE  BinInv'
    OBVIOUS
  <2>1. Typed' /\ Typed
    BY TypedStep DEF BinInv
  <2>2. published \subseteq published' /\ TableReleased'
    BY StoreOfNext, TableStep DEF BinInv, Typed, StoreInv
  <2>3. PICK S : S = Released
    OBVIOUS
  <2>4. \A v \in Versions : Known(v) =>
          [version |-> v, hash |-> packages[v]] \in S
    BY <2>1, <2>3
    DEF BinInv, TableReleased, Typed, StoreInv, StoreTyped, StoreTypeOK, Known,
        Released, Package, Maybe
  <2>5. Carries(S)'
    <3>1. Carries(S)
      BY <2>3 DEF BinInv
    <3> QED
      BY <2>1, <2>4, <3>1, CarriesStep
  <2>6. S \subseteq Released'
    BY <2>2, <2>3 DEF Released
  <2>7. offers' \in Seq(Released')
    <3>1. Seq(S) \subseteq Seq(Released')
      BY <2>6, SeqMonotonic
    <3> QED
      BY <2>5, <3>1 DEF Carries
  <2>8. Carries(Released)'
    BY <2>5, <2>6, <2>7 DEF Carries, Maybe
  <2> QED
    BY <2>1, <2>2, <2>8 DEF BinInv
<1>3. BinInv => BinaryWasPublished
  BY DEF BinInv, Carries, Released, BinaryWasPublished
<1> QED
  BY <1>1, <1>2, <1>3, PTL DEF Spec

-----------------------------------------------------------------------------
(* The last-known-good package, when operators wait until the agent has      *)
(* settled.  A status does not name its package; what makes it promote the   *)
(* right one is that all the lane holds is one package, and that nobody      *)
(* says Installed before that package has replaced the binary.               *)

Failure == {"InstallFailed"}

\* Nobody says Installed, or is about to.
Unclaimed ==
  /\ ~ sync.ok /\ last # "Installed" /\ out # "Installed"
  /\ late \in Seq(Failure) /\ up \in Seq(Failure)

OnlyPackage(p) ==
  /\ row.pending \in {None, p}
  /\ \A r \in Requests : req[r].pc # "idle" => req[r].pkg = p
  /\ offers \in Seq({p})
  /\ sync.pc # "idle" => sync.pkg = p
  /\ p \notin installed => Unclaimed

OnePackage == \E p \in Maybe(Package) : OnlyPackage(p)

\* A process that reported a success, or is about to, is to restart.
SuccessRestarts ==
  /\ last = "Installed" => dying
  /\ sync.ok => sync.pc \in {"arm", "report"}
  /\ sync.pc = "report" /\ sync.ok => dying

LkgInv == OnePackage /\ SuccessRestarts /\ LkgWasInstalled

LEMMA FailureFacts == Failure \subseteq Result /\ "Installed" \notin Failure
BY DEF Failure, Result

LEMMA NoStatus == None # "Installed"
BY RolloutAssumption

\* A settled agent leaves nothing of an earlier push, claims included.
LEMMA OnlyBegin ==
  ASSUME Typed, SuccessRestarts, Settled, NEW r \in Requests,
         NEW p \in Package, Begin(r, p)
  PROVE  OnlyPackage(p)'
<1>1. /\ UNCHANGED <<row, late, up, offers, sync, last, out, installed>>
      /\ \A x \in Requests : req'[x] =
           IF x = r THEN [pc |-> "record", pkg |-> p] ELSE req[x]
  BY DEF Begin, wire, agentVars, Typed, LaneTypeOK
<1>2. late' \in Seq(Failure) /\ up' \in Seq(Failure) /\ offers' \in Seq({p})
  BY <1>1, EmptySeq DEF Settled
<1>3. ~ sync.ok /\ last # "Installed" /\ out # "Installed"
  BY NoStatus DEF Settled, SuccessRestarts, Typed, LaneTypeOK
<1> QED
  BY <1>1, <1>2, <1>3 DEF Settled, OnlyPackage, Unclaimed

LEMMA OnlyRequest ==
  ASSUME NEW CONSTANT p, Typed, OnlyPackage(p), NEW r \in Requests,
         CancelPush(r) \/ RequestStep(r)
  PROVE  OnlyPackage(p)'
<1>1. /\ UNCHANGED <<late, up, sync, last, out, installed>>
      /\ req \in [Requests -> Request]
  BY DEF CancelPush, RequestStep, RecordPending, SendOffer, wire, agentVars,
         Typed, LaneTypeOK
<1>2. CASE CancelPush(r)
  BY <1>1, <1>2 DEF CancelPush, OnlyPackage, Unclaimed, wire, NoRequest
<1>3. CASE RecordPending(r)
  <2>1. req[r].pkg = p /\ req[r] \in Request /\ row \in Row
    BY <1>1, <1>3 DEF RecordPending, OnlyPackage, Typed, LaneTypeOK
  <2>2. row'.pending = p
    BY <1>3, <2>1 DEF RecordPending, Row
  <2>3. \A x \in Requests : req'[x].pkg = req[x].pkg
                            /\ (x # r => req'[x].pc = req[x].pc)
    BY <1>1, <1>3, <2>1 DEF RecordPending, Request
  <2> QED
    BY <1>1, <1>3, <2>1, <2>2, <2>3
    DEF RecordPending, OnlyPackage, Unclaimed, wire
<1>4. CASE SendOffer(r)
  <2>1. req[r].pkg = p
    BY <1>4 DEF SendOffer, OnlyPackage
  <2>2. offers' \in Seq({p})
    BY <1>4, <2>1, AppendProperties DEF SendOffer, OnlyPackage
  <2> QED
    BY <1>1, <1>4, <2>2 DEF SendOffer, OnlyPackage, Unclaimed, NoRequest
<1> QED
  BY <1>2, <1>3, <1>4 DEF RequestStep

LEMMA OnlySync ==
  ASSUME NEW CONSTANT p, Typed, OnlyPackage(p), BeginSync \/ Install
  PROVE  OnlyPackage(p)'
<1>0. sync \in Sync /\ UNCHANGED <<row, req, late, up>>
  BY DEF Typed, LaneTypeOK, BeginSync, Install, Download, Check, Swap,
         ArmRestart, SyncFails, Report, SyncStep, serverVars, wire
<1>1. CASE BeginSync
  <2>1. PICK i \in DOMAIN offers :
          /\ offers' = RemoveAt(offers, i)
          /\ IF offers[i].hash = done THEN UNCHANGED <<sync, last, out>>
             ELSE /\ sync' = [NoSync EXCEPT !.pc = "download", !.pkg = offers[i]]
                  /\ last' = None /\ out' = None
    BY <1>1 DEF BeginSync
  <2>2. offers[i] = p /\ offers' \in Seq({p})
    BY <2>1, RemoveAtTyped DEF OnlyPackage
  <2>3. \/ UNCHANGED <<sync, last, out>>
        \/ sync'.pkg = p /\ ~ sync'.ok /\ last' = None /\ out' = None
    BY <2>1, <2>2 DEF NoSync
  <2> QED
    BY <1>0, <1>1, <2>2, <2>3, NoStatus DEF BeginSync, OnlyPackage, Unclaimed
<1>2. CASE Download \/ Check \/ ArmRestart \/ SyncFails
  <2>1. /\ sync'.pkg = sync.pkg /\ sync'.ok = sync.ok /\ sync.pc # "idle"
        /\ UNCHANGED <<offers, last, out, installed>>
    BY <1>0, <1>2
    DEF Download, Check, ArmRestart, SyncFails, SyncStep, Sync, wire
  <2> QED
    BY <1>0, <2>1 DEF OnlyPackage, Unclaimed
<1>3. CASE Swap
  <2>1. /\ sync'.pkg = sync.pkg /\ sync.pkg = p /\ offers' = offers
        /\ installed' = installed \union {p}
    BY <1>0, <1>3 DEF Swap, SyncStep, Sync, wire, OnlyPackage
  <2> QED
    BY <1>0, <2>1 DEF OnlyPackage
<1>4. CASE Report
  <2>1. p \notin installed => last' = "InstallFailed" /\ out' = "InstallFailed"
    BY <1>4 DEF Report, OnlyPackage, Unclaimed
  <2> QED
    BY <1>0, <1>4, <2>1 DEF Report, OnlyPackage, Unclaimed, wire, NoSync
<1> QED
  BY <1>1, <1>2, <1>3, <1>4 DEF Install

\* What is left of the statuses when a connection ends are statuses.
LEMMA CutTyped ==
  ASSUME NEW CONSTANT S, late \in Seq(S), up \in Seq(S),
         NEW n \in 0..Len(up), Cut(n)
  PROVE  late' \in Seq(S) /\ up' \in Seq(S)
<1>1. SubSeq(up, 1, n) \in Seq(S)
  BY PrefixTyped
<1> QED
  BY <1>1, ConcatProperties, EmptySeq DEF Cut

LEMMA OnlyWire ==
  ASSUME NEW CONSTANT p, Typed, OnlyPackage(p),
         RecordStatus \/ SendStatus \/ Connect \/ Drop \/ Restart \/ Crash
           \/ Start \/ ServerCrash
  PROVE  OnlyPackage(p)'
<1>1. CASE RecordStatus
  <2>1. PICK s : row' = Recorded(s)
    BY <1>1 DEF RecordStatus
  <2>2. row'.pending = None
    BY <2>1 DEF Recorded, Typed, LaneTypeOK, Row
  <2>3. p \notin installed => late' \in Seq(Failure) /\ up' \in Seq(Failure)
    BY <1>1, HeadTailTyped DEF RecordStatus, OnlyPackage, Unclaimed
  <2> QED
    BY <1>1, <2>2, <2>3 DEF RecordStatus, OnlyPackage, Unclaimed, agentVars
<1>2. CASE SendStatus
  <2>1. p \notin installed => out \in Failure
    BY <1>2 DEF SendStatus, OnlyPackage, Unclaimed, Failure, Typed, LaneTypeOK,
                Result, Maybe
  <2>2. p \notin installed => up' \in Seq(Failure)
    BY <1>2, <2>1, AppendProperties DEF SendStatus, OnlyPackage, Unclaimed
  <2> QED
    BY <1>2, <2>2, NoStatus DEF SendStatus, OnlyPackage, Unclaimed, serverVars
<1>3. CASE Connect
  <2>1. p \notin installed => up' \in Seq(Failure)
    <3>1. CASE last = None
      BY <1>3, <3>1, EmptySeq DEF Connect
    <3>2. CASE last # None
      <4>1. p \notin installed => last \in Failure
        BY <3>2 DEF OnlyPackage, Unclaimed, Failure, Typed, LaneTypeOK, Result,
                    Maybe
      <4> QED
        BY <1>3, <3>2, <4>1 DEF Connect
    <3> QED
      BY <3>1, <3>2
  <2> QED
    BY <1>3, <2>1, NoStatus DEF Connect, OnlyPackage, Unclaimed, serverVars
<1>4. CASE Drop
  <2>1. offers' \in Seq({p})
    BY <1>4, PrefixTyped DEF Drop, OnlyPackage
  <2>2. p \notin installed => late' \in Seq(Failure) /\ up' \in Seq(Failure)
    BY <1>4, CutTyped DEF Drop, OnlyPackage, Unclaimed
  <2> QED
    BY <1>4, <2>1, <2>2 DEF Drop, OnlyPackage, Unclaimed, serverVars, agentVars
<1>5. CASE Restart \/ Crash
  <2>0. Stopped /\ \E n \in 0..Len(up) : Cut(n)
    BY <1>5 DEF Restart, Crash
  <2>1. /\ offers' = << >> /\ sync'.pc = "idle" /\ ~ sync'.ok
        /\ last' = None /\ out' = None
        /\ UNCHANGED <<row, req, installed>>
    BY <2>0 DEF Stopped, NoSync, serverVars
  <2>2. offers' \in Seq({p})
    BY <2>1, EmptySeq
  <2>3. p \notin installed => late' \in Seq(Failure) /\ up' \in Seq(Failure)
    BY <2>0, CutTyped DEF OnlyPackage, Unclaimed
  <2> QED
    BY <2>1, <2>2, <2>3, NoStatus DEF OnlyPackage, Unclaimed
<1>6. CASE Start
  BY <1>6 DEF Start, OnlyPackage, Unclaimed, serverVars, wire
<1>7. CASE ServerCrash
  <2>1. offers' \in Seq({p})
    BY <1>7, PrefixTyped DEF ServerCrash, OnlyPackage
  <2>2. late' \in Seq(Failure) /\ up' \in Seq(Failure)
    BY <1>7, EmptySeq DEF ServerCrash
  <2> QED
    BY <1>7, <2>1, <2>2
    DEF ServerCrash, OnlyPackage, Unclaimed, NoRequest, agentVars
<1> QED
  BY <1>1, <1>2, <1>3, <1>4, <1>5, <1>6, <1>7

LEMMA SuccessStep ==
  ASSUME Typed, SuccessRestarts, [Next]_vars
  PROVE  SuccessRestarts'
<1>0. sync \in Sync
  BY DEF Typed, LaneTypeOK
<1>1. CASE UNCHANGED agentVars
  <2>1. UNCHANGED <<sync, last, dying>>
    BY <1>1 DEF agentVars
  <2> QED
    BY <2>1 DEF SuccessRestarts
<1>2. CASE BeginSync
  <2>1. PICK i \in DOMAIN offers :
              IF offers[i].hash = done THEN UNCHANGED <<sync, last, out>>
              ELSE /\ sync' = [NoSync EXCEPT !.pc = "download",
                                             !.pkg = offers[i]]
                   /\ last' = None /\ out' = None
    BY <1>2 DEF BeginSync
  <2>2. dying' = dying
    BY <1>2 DEF BeginSync
  <2>3. CASE offers[i].hash = done
    <3>1. UNCHANGED <<sync, last>>
      BY <2>1, <2>3
    <3> QED
      BY <2>2, <3>1 DEF SuccessRestarts
  <2>4. CASE offers[i].hash # done
    <3>1. last' = None
      BY <2>1, <2>4
    <3>2. sync' = [NoSync EXCEPT !.pc = "download", !.pkg = offers[i]]
      BY <2>1, <2>4
    <3>3. sync'.pc = "download" /\ ~ sync'.ok
      BY <3>2 DEF NoSync
    <3> QED
      BY <3>1, <3>3, NoStatus DEF SuccessRestarts
  <2> QED
    BY <2>3, <2>4
<1>3. CASE Download \/ Check \/ Swap \/ ArmRestart \/ SyncFails
  <2>1. CASE Download
    BY <1>0, <2>1 DEF Download, SyncStep, SuccessRestarts, Sync
  <2>2. CASE Check
    BY <1>0, <2>2 DEF Check, SyncStep, SuccessRestarts, Sync
  <2>3. CASE Swap
    BY <1>0, <2>3 DEF Swap, SyncStep, SuccessRestarts, Sync
  <2>4. CASE ArmRestart
    BY <1>0, <2>4 DEF ArmRestart, SyncStep, SuccessRestarts, Sync, Arms
  <2>5. CASE SyncFails
    BY <1>0, <2>5 DEF SyncFails, SyncStep, SuccessRestarts, Sync
  <2> QED
    BY <1>3, <2>1, <2>2, <2>3, <2>4, <2>5
<1>4. CASE Report
  BY <1>4 DEF Report, SuccessRestarts, NoSync
<1>5. CASE Restart \/ Crash
  BY <1>5, NoStatus DEF Restart, Crash, Stopped, SuccessRestarts, NoSync
<1>6. CASE SendStatus \/ Connect \/ Start
  BY <1>6 DEF SendStatus, Connect, Start, SuccessRestarts
<1>7. CASE \E r \in Requests :
             PushPackage(r) \/ RollbackPackage(r) \/ CancelPush(r)
               \/ RequestStep(r)
  BY <1>1, <1>7 DEF PushPackage, RollbackPackage, Begin, CancelPush,
                    RequestStep, RecordPending, SendOffer
<1>8. CASE StoreStep \/ RecordStatus \/ Drop \/ ServerCrash \/ UNCHANGED vars
  BY <1>1, <1>8 DEF StoreStep, RecordStatus, Drop, ServerCrash, vars
<1> QED
  BY <1>2, <1>3, <1>4, <1>5, <1>6, <1>7, <1>8 DEF Next, Install

LEMMA OnlyStep ==
  ASSUME Typed, LkgInv, [Next]_vars,
         \A r \in Requests, p \in Package : Begin(r, p) => Settled
  PROVE  OnePackage'
<1>1. PICK p \in Maybe(Package) : OnlyPackage(p)
  BY DEF LkgInv, OnePackage
<1>2. CASE OnlyPackage(p)'
  BY <1>2 DEF OnePackage
<1>3. ASSUME NEW r \in Requests, NEW q \in Package, Begin(r, q)
      PROVE  OnePackage'
  BY <1>3, OnlyBegin DEF LkgInv, OnePackage, Maybe
<1>4. ASSUME NEW r \in Requests, PushPackage(r) \/ RollbackPackage(r)
      PROVE  OnePackage'
  <2>1. PICK q \in Package : Begin(r, q)
    <3>1. CASE PushPackage(r)
      BY <1>4, <3>1
      DEF PushPackage, Known, Package, Typed, StoreInv, StoreTyped,
          StoreTypeOK, Maybe
    <3>2. CASE RollbackPackage(r)
      BY <3>2 DEF RollbackPackage, Typed, LaneTypeOK, Row, Maybe
    <3> QED
      BY <1>4, <3>1, <3>2
  <2> QED
    BY <1>3, <2>1
<1>5. CASE StoreStep \/ UNCHANGED vars
  BY <1>1, <1>2, <1>5
  DEF StoreStep, OnlyPackage, Unclaimed, vars, serverVars, wire, agentVars
<1> QED
  BY <1>1, <1>2, <1>4, <1>5, OnlyRequest, OnlySync, OnlyWire DEF Next

LEMMA LkgStep ==
  ASSUME Typed, LkgInv, [Next]_vars
  PROVE  LkgWasInstalled'
<1>1. installed \subseteq installed' /\ row \in Row
  <2>1. CASE Swap
    BY <2>1 DEF Swap, Typed, LaneTypeOK
  <2>2. CASE StoreStep \/ UNCHANGED vars
    BY <2>2 DEF StoreStep, vars, agentVars, Typed, LaneTypeOK
  <2>3. CASE \E r \in Requests :
               PushPackage(r) \/ RollbackPackage(r) \/ CancelPush(r)
                 \/ RequestStep(r)
    BY <2>3 DEF PushPackage, RollbackPackage, Begin, CancelPush, RequestStep,
                RecordPending, SendOffer, agentVars, Typed, LaneTypeOK
  <2>4. CASE RecordStatus \/ BeginSync \/ SendStatus \/ Connect \/ Drop
               \/ Restart \/ Crash \/ Start \/ ServerCrash
    BY <2>4 DEF RecordStatus, BeginSync, SendStatus, Connect, Drop, Restart,
                Crash, Stopped, Start, ServerCrash, agentVars, Typed,
                LaneTypeOK
  <2>5. CASE Download \/ Check \/ ArmRestart \/ SyncFails \/ Report
    BY <2>5 DEF Download, Check, ArmRestart, SyncFails, Report, Typed,
                LaneTypeOK
  <2> QED
    BY <2>1, <2>2, <2>3, <2>4, <2>5 DEF Next, Install
<1>2. CASE row'.lkg \in {None, row.lkg}
  BY <1>1, <1>2 DEF LkgInv, LkgWasInstalled, Maybe
<1>3. CASE RecordStatus
  <2>1. PICK p \in Maybe(Package) : OnlyPackage(p)
    BY DEF LkgInv, OnePackage
  <2>2. PICK s : row' = Recorded(s) /\ (p \notin installed => s \in Failure)
    BY <1>3, <2>1, HeadTailTyped DEF RecordStatus, OnlyPackage, Unclaimed
  <2>3. CASE s = "Installed"
    <3>1. row'.lkg = row.pending /\ p \in installed
      BY <1>1, <2>2, <2>3, FailureFacts DEF Recorded, Row
    <3> QED
      BY <1>1, <2>1, <3>1 DEF OnlyPackage, LkgWasInstalled, Maybe
  <2>4. CASE s # "Installed"
    <3>1. row'.lkg = row.lkg
      BY <1>1, <2>2, <2>4 DEF Recorded, Row
    <3> QED
      BY <1>2, <3>1
  <2> QED
    BY <2>3, <2>4
<1>4. ASSUME NEW r \in Requests,
             PushPackage(r) \/ RollbackPackage(r) \/ CancelPush(r)
               \/ RequestStep(r)
      PROVE  row'.lkg = row.lkg
  BY <1>1, <1>4 DEF PushPackage, RollbackPackage, Begin, CancelPush,
                    RequestStep, RecordPending, SendOffer, Row
<1>5. CASE UNCHANGED row
  BY <1>2, <1>5
<1>6. CASE StoreStep \/ UNCHANGED vars
  BY <1>5, <1>6 DEF StoreStep, vars, serverVars
<1>7. CASE BeginSync \/ Install
  BY <1>5, <1>7 DEF BeginSync, Install, Download, Check, Swap, ArmRestart,
                    SyncFails, Report, SyncStep, serverVars
<1>8. CASE SendStatus \/ Connect \/ Drop \/ Restart \/ Crash \/ Start
             \/ ServerCrash
  BY <1>5, <1>8 DEF SendStatus, Connect, Drop, Restart, Crash, Stopped, Start,
                    ServerCrash, serverVars
<1> QED
  BY <1>2, <1>3, <1>4, <1>6, <1>7, <1>8 DEF Next

\* When operators let an agent settle between pushes, a package rollback can
\* only re-push a package whose binary did replace the agent's: no lost
\* connection, repeated status, crash of either side or failed installation
\* makes a status promote a package it is not about.
THEOREM RollbackCorrect == ASSUME Serial
                           PROVE  Spec => []LkgWasInstalled
<1>1. Init => LkgInv
  <2> SUFFICES ASSUME Init
               PROVE  LkgInv
    OBVIOUS
  <2>1. OnlyPackage(None)
    BY EmptySeq, NoStatus DEF Init, OnlyPackage, Unclaimed, NoRequest, NoSync
  <2> QED
    BY <2>1, NoStatus DEF Init, LkgInv, OnePackage, SuccessRestarts,
                          LkgWasInstalled, NoSync, Maybe
<1>2. Typed /\ LkgInv /\ [Next]_vars => LkgInv'
  <2> SUFFICES ASSUME Typed, LkgInv, [Next]_vars
               PROVE  LkgInv'
    OBVIOUS
  <2>1. \A r \in Requests, p \in Package : Begin(r, p) => Settled
    BY DEF Begin
  <2> QED
    BY <2>1, OnlyStep, SuccessStep, LkgStep DEF LkgInv
<1>3. LkgInv => LkgWasInstalled
  BY DEF LkgInv
<1> QED
  BY <1>1, <1>2, <1>3, TypedInit, TypedStep, PTL DEF Spec
=============================================================================
