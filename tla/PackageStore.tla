---------------------------- MODULE PackageStore ----------------------------
(***************************************************************************)
(* The packages of the fleet server (api.go, store.go): a file per         *)
(* uploaded version and, in the packages table, the hash that pushes of    *)
(* it will offer.  Each upload has its own goroutine and writes            *)
(* <version>.tmp before it renames it; uploads of one version share that   *)
(* name, and one that opened it keeps its inode after a rename.            *)
(*                                                                         *)
(* There is one package name (pushPackage: "one managed package"), and a   *)
(* build stands for its bytes and for their SHA-256.                       *)
(***************************************************************************)
EXTENDS Naturals

CONSTANTS
  Versions, Builds,
  Uploads,       \* uploads the server handles at the same time
  Inodes,        \* bound: file objects that exist at the same time
  Empty, Torn,   \* a truncated file; a part of a build, or a mix of two
  None,
  MaxUploads     \* bound: uploads started

Contents == Builds \union {Empty, Torn}
Maybe(S) == S \union {None}

ASSUME StoreAssumption ==
  /\ Empty \notin Builds \union {Torn} /\ Torn \notin Builds
  /\ None \notin Contents \union Inodes \union Versions
  /\ MaxUploads \in Nat

VARIABLES
  final, tmp,   \* inodes of packagesDir/<version> and <version>.tmp
  data,         \* data[i]: content of an inode
  packages,     \* the packages table: the hash of a version
  upload,       \* upload[u]: a handleUploadPackage
  uploads,      \* uploads started
  published,    \* history: the builds whose hash was recorded
  suspect       \* history: versions whose last upload was not alone, or not whole

storeVars == <<final, tmp, data, packages, upload, uploads, published, suspect>>

Upload   == [pc : {"idle", "copy", "rename", "record"},
             version : Maybe(Versions), body : Maybe(Builds),
             fd : Maybe(Inodes), alone : BOOLEAN]
NoUpload == [pc |-> "idle", version |-> None, body |-> None, fd |-> None,
             alone |-> FALSE]

StoreInit ==
  /\ final = [v \in Versions |-> None] /\ tmp = [v \in Versions |-> None]
  /\ data = [i \in Inodes |-> Empty]
  /\ packages = [v \in Versions |-> None]
  /\ upload = [u \in Uploads |-> NoUpload]
  /\ uploads = 0 /\ published = {} /\ suspect = {}

-----------------------------------------------------------------------------

Of(v) == {u \in Uploads : upload[u].version = v}

Referenced ==
  {final[v] : v \in Versions} \union {tmp[v] : v \in Versions}
    \union {upload[u].fd : u \in Uploads}

\* os.OpenFile(O_CREATE|O_TRUNC): the file of that name, emptied, or a new one.
Candidate(v) == IF tmp[v] # None THEN {tmp[v]} ELSE Inodes \ Referenced

Opened(u, v, b, i) ==
  [w \in Uploads |->
     IF w = u THEN [pc |-> "copy", version |-> v, body |-> b, fd |-> i,
                    alone |-> Of(v) = {}]
     ELSE [upload[w] EXCEPT !.alone = @ /\ w \notin Of(v)]]

OpenUpload(u, v, b) ==
  /\ upload[u].pc = "idle" /\ uploads < MaxUploads
  /\ \E i \in Candidate(v) :
       /\ tmp' = [tmp EXCEPT ![v] = i]
       /\ data' = [data EXCEPT ![i] = Empty]
       /\ upload' = Opened(u, v, b, i)
  /\ uploads' = uploads + 1
  /\ UNCHANGED <<final, packages, published, suspect>>

\* io.Copy of the request's body, then Close.
Written(u) ==
  {upload[u].body} \union (IF data[upload[u].fd] = Empty THEN {} ELSE {Torn})

Copy(u) ==
  /\ upload[u].pc = "copy"
  /\ \E x \in Written(u) : data' = [data EXCEPT ![upload[u].fd] = x]
  /\ upload' = [upload EXCEPT ![u].pc = "rename", ![u].fd = None]
  /\ UNCHANGED <<final, tmp, packages, uploads, published, suspect>>

\* The request ends with an error; os.Remove(tmpPath) of whatever is there.
AbandonUpload(u) ==
  /\ tmp' = [tmp EXCEPT ![upload[u].version] = None]
  /\ upload' = [upload EXCEPT ![u] = NoUpload]
  /\ UNCHANGED <<final, packages, uploads, published, suspect>>

CopyFails(u) ==
  /\ upload[u].pc = "copy"
  /\ \E x \in {data[upload[u].fd], Torn} :
       data' = [data EXCEPT ![upload[u].fd] = x]
  /\ AbandonUpload(u)

\* os.Rename by name: what is there may be another upload's, or gone.
RenameUpload(u) ==
  LET v == upload[u].version
  IN  /\ upload[u].pc = "rename" /\ tmp[v] # None
      /\ final' = [final EXCEPT ![v] = tmp[v]]
      /\ tmp' = [tmp EXCEPT ![v] = None]
      /\ upload' = [upload EXCEPT ![u].pc = "record"]
      /\ UNCHANGED <<data, packages, uploads, published, suspect>>

RenameFails(u) ==
  /\ upload[u].pc = "rename"
  /\ AbandonUpload(u) /\ UNCHANGED data

\* recordPackage: the hash of what this request received.
BugRecordPackage(u) ==
  /\ upload[u].pc = "record"
  /\ packages' = [packages EXCEPT ![upload[u].version] =
                    IF @ = None THEN upload[u].body ELSE @]
  /\ published' = published \union {upload[u].body}
  /\ suspect' = IF upload[u].alone THEN suspect \ {upload[u].version}
                ELSE suspect \union {upload[u].version}
  /\ upload' = [upload EXCEPT ![u] = NoUpload]
  /\ UNCHANGED <<final, tmp, data, uploads>>
RecordPackage(u) ==
  /\ upload[u].pc = "record"
  /\ packages' = [packages EXCEPT ![upload[u].version] = upload[u].body]
  /\ published' = published \union {upload[u].body}
  /\ suspect' = IF upload[u].alone THEN suspect \ {upload[u].version}
                ELSE suspect \union {upload[u].version}
  /\ upload' = [upload EXCEPT ![u] = NoUpload]
  /\ UNCHANGED <<final, tmp, data, uploads>>

\* The request's context ends before the statement runs: the file has been
\* replaced, its hash has not.
RecordFails(u) ==
  /\ upload[u].pc = "record"
  /\ suspect' = suspect \union {upload[u].version}
  /\ upload' = [upload EXCEPT ![u] = NoUpload]
  /\ UNCHANGED <<final, tmp, data, packages, uploads, published>>

\* The server dies; files and table stay as they are.
StoreCrash ==
  /\ suspect' = suspect \union
       {upload[u].version : u \in {w \in Uploads : upload[w].pc = "record"}}
  /\ upload' = [u \in Uploads |-> NoUpload]
  /\ UNCHANGED <<final, tmp, data, packages, uploads, published>>

UploadStep(u) ==
  \/ \E v \in Versions, b \in Builds : OpenUpload(u, v, b)
  \/ Copy(u) \/ CopyFails(u) \/ RenameUpload(u) \/ RenameFails(u)
  \/ RecordPackage(u) \/ RecordFails(u)

\* handleDownloadPackage: the bytes a client gets, cut short or not.
Downloadable(v) == packages[v] # None /\ final[v] # None
Downloaded(v) == {data[final[v]], Torn}

-----------------------------------------------------------------------------

StoreTypeOK ==
  /\ final \in [Versions -> Maybe(Inodes)]
  /\ tmp \in [Versions -> Maybe(Inodes)]
  /\ data \in [Inodes -> Contents]
  /\ packages \in [Versions -> Maybe(Builds)]
  /\ upload \in [Uploads -> Upload]
  /\ uploads \in 0..MaxUploads
  /\ published \subseteq Builds /\ suspect \subseteq Versions

\* "the same atomic-write pattern used everywhere else in this project a file
\* must never be left half-written" (handleUploadPackage): what is served for
\* a version is what its hash says, unless two uploads of it ran into one
\* another or one was cut off before its hash was recorded; and a later
\* upload, alone, repairs that.
ServesRecorded ==
  \A v \in Versions \ suspect :
    packages[v] # None /\ Of(v) = {} => data[final[v]] = packages[v]
=============================================================================
