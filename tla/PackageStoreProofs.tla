------------------------- MODULE PackageStoreProofs -------------------------
(***************************************************************************)
(* What the uploads of PackageStore preserve, for any number of versions,  *)
(* builds, concurrent uploads and inodes.                                  *)
(***************************************************************************)
EXTENDS PackageStore, TLAPS

\* An upload at work has a version and a body, one that copies a file.
UploadShape ==
  \A u \in Uploads :
    /\ upload[u].pc = "idle" => upload[u].version = None
    /\ upload[u].pc # "idle" => upload[u].version \in Versions
    /\ upload[u].pc # "idle" => upload[u].body \in Builds
    /\ upload[u].pc = "copy" <=> upload[u].fd # None

StoreTyped == StoreTypeOK /\ UploadShape

\* What can be reached or written under the name of a version.
Files(v) ==
  ({final[v], tmp[v]} \union {upload[u].fd : u \in Of(v)}) \ {None}

\* Versions share no file, and a candidate is not the file it replaces.
Apart ==
  /\ \A v, w \in Versions : v # w => Files(v) \intersect Files(w) = {}
  /\ \A v \in Versions : tmp[v] # None => tmp[v] # final[v]

\* An upload that has met no other of its version finds what it wrote.
Whole(u) ==
  upload[u].pc # "idle" /\ upload[u].alone =>
    LET v == upload[u].version
    IN  /\ Of(v) = {u}
        /\ upload[u].pc = "copy" =>
             tmp[v] = upload[u].fd /\ data[tmp[v]] = Empty
        /\ upload[u].pc = "rename" =>
             tmp[v] # None /\ data[tmp[v]] = upload[u].body
        /\ upload[u].pc = "record" =>
             final[v] # None /\ data[final[v]] = upload[u].body

AloneIsWhole == \A u \in Uploads : Whole(u)

\* Unless an upload is about to record its hash, what a version not suspect
\* serves is what its hash says, and nobody is writing it.
Quiet(v) == \A u \in Of(v) : upload[u].pc # "record"

Serves(v) ==
  v \notin suspect /\ Quiet(v) =>
    /\ packages[v] # None => final[v] # None /\ data[final[v]] = packages[v]
    /\ final[v] # None => \A u \in Of(v) : upload[u].fd # final[v]

QuietServes == \A v \in Versions : Serves(v)

StoreInv == StoreTyped /\ Apart /\ AloneIsWhole /\ QuietServes

StoreNext == (\E u \in Uploads : UploadStep(u)) \/ StoreCrash

LEMMA StoreConstants ==
  /\ None \notin Versions /\ None \notin Builds /\ None \notin Inodes
  /\ Empty \in Contents /\ Torn \in Contents /\ Builds \subseteq Contents
  /\ Empty \notin Builds /\ Torn # Empty /\ MaxUploads \in Nat
BY StoreAssumption DEF Contents

LEMMA StoreTypedInit == StoreInit => StoreTyped
BY StoreConstants
DEF StoreInit, StoreTyped, StoreTypeOK, UploadShape, Upload, NoUpload, Maybe

LEMMA UploadEnds ==
  ASSUME upload \in [Uploads -> Upload], UploadShape, NEW u \in Uploads,
         upload' = [upload EXCEPT ![u] = NoUpload]
  PROVE  upload' \in [Uploads -> Upload] /\ UploadShape'
<1>1. NoUpload \in Upload
  BY DEF NoUpload, Upload, Maybe
<1>2. NoUpload.pc = "idle" /\ NoUpload.version = None /\ NoUpload.fd = None
  BY DEF NoUpload
<1>3. \A w \in Uploads : upload'[w] = IF w = u THEN NoUpload ELSE upload[w]
  OBVIOUS
<1> QED
  BY <1>1, <1>2, <1>3 DEF UploadShape

LEMMA StoreTypedStep ==
  ASSUME StoreTyped, StoreNext
  PROVE  StoreTyped'
<1> USE StoreConstants
<1>0. StoreTypeOK /\ UploadShape
  BY DEF StoreTyped
<1>1. ASSUME NEW u \in Uploads, NEW v \in Versions, NEW b \in Builds,
             OpenUpload(u, v, b)
      PROVE  StoreTyped'
  <2>1. PICK i \in Inodes :
          /\ tmp' = [tmp EXCEPT ![v] = i]
          /\ data' = [data EXCEPT ![i] = Empty]
          /\ upload' = Opened(u, v, b, i)
    BY <1>0, <1>1 DEF OpenUpload, Candidate, StoreTypeOK, Maybe
  <2>2. /\ tmp' \in [Versions -> Maybe(Inodes)]
        /\ data' \in [Inodes -> Contents]
        /\ uploads' \in 0..MaxUploads
        /\ UNCHANGED <<final, packages, published, suspect>>
    BY <1>0, <1>1, <2>1 DEF OpenUpload, StoreTypeOK, Maybe
  <2>3. ASSUME NEW w \in Uploads
        PROVE  /\ upload'[w] \in Upload
               /\ upload'[w].pc = "idle" => upload'[w].version = None
               /\ upload'[w].pc # "idle" => upload'[w].version \in Versions
               /\ upload'[w].pc # "idle" => upload'[w].body \in Builds
               /\ upload'[w].pc = "copy" <=> upload'[w].fd # None
    <3>1. upload[w] \in Upload
      BY <1>0 DEF StoreTypeOK
    <3>2. CASE w = u
      <4>1. (Of(v) = {}) \in BOOLEAN
        OBVIOUS
      <4> QED
        BY <2>1, <3>2, <4>1 DEF Opened, Upload, Maybe
    <3>3. CASE w # u
      <4>1. (upload[w].alone /\ w \notin Of(v)) \in BOOLEAN
        OBVIOUS
      <4>2. upload'[w] = [upload[w] EXCEPT
                            !.alone = upload[w].alone /\ w \notin Of(v)]
        BY <2>1, <3>3 DEF Opened
      <4> QED
        BY <1>0, <3>1, <4>1, <4>2 DEF Upload, UploadShape
    <3> QED
      BY <3>2, <3>3
  <2>4. upload' \in [Uploads -> Upload]
    BY <2>1, <2>3 DEF Opened
  <2> QED
    BY <1>0, <2>2, <2>3, <2>4 DEF StoreTyped, StoreTypeOK, UploadShape
<1>2. ASSUME NEW u \in Uploads, Copy(u)
      PROVE  StoreTyped'
  <2>1. /\ upload[u] \in Upload /\ upload[u].fd \in Inodes
        /\ upload[u].version \in Versions
        /\ upload[u].body \in Builds \intersect Contents
    BY <1>0, <1>2 DEF Copy, StoreTypeOK, UploadShape, Upload, Maybe
  <2>2. data' \in [Inodes -> Contents]
    BY <1>0, <1>2, <2>1 DEF Copy, Written, StoreTypeOK
  <2>3. \A w \in Uploads : upload'[w] =
          IF w = u THEN [upload[u] EXCEPT !.pc = "rename", !.fd = None]
          ELSE upload[w]
    BY <1>0, <1>2 DEF Copy, StoreTypeOK
  <2>4. [upload[u] EXCEPT !.pc = "rename", !.fd = None] \in Upload
    BY <2>1 DEF Upload, Maybe
  <2>5. upload' \in [Uploads -> Upload]
    BY <1>0, <1>2, <2>3, <2>4 DEF Copy, StoreTypeOK
  <2>6. UploadShape'
    <3>1. /\ upload'[u].pc = "rename" /\ upload'[u].fd = None
          /\ upload'[u].version = upload[u].version
          /\ upload'[u].body = upload[u].body
      BY <2>1, <2>3 DEF Upload
    <3> QED
      BY <1>0, <2>1, <2>3, <3>1 DEF UploadShape
  <2> QED
    BY <1>0, <1>2, <2>2, <2>5, <2>6 DEF Copy, StoreTyped, StoreTypeOK
<1>3. ASSUME NEW u \in Uploads, CopyFails(u) \/ RenameFails(u)
      PROVE  StoreTyped'
  <2>1. upload[u].version \in Versions
        /\ (upload[u].pc = "copy" => upload[u].fd \in Inodes)
    BY <1>0, <1>3
    DEF CopyFails, RenameFails, StoreTypeOK, UploadShape, Upload, Maybe
  <2>2. data' \in [Inodes -> Contents]
    BY <1>0, <1>3, <2>1 DEF CopyFails, RenameFails, StoreTypeOK
  <2>3. upload' \in [Uploads -> Upload] /\ UploadShape'
    BY <1>0, <1>3, UploadEnds
    DEF CopyFails, RenameFails, AbandonUpload, StoreTypeOK
  <2>4. tmp' \in [Versions -> Maybe(Inodes)]
        /\ UNCHANGED <<final, packages, uploads, published, suspect>>
    BY <1>0, <1>3, <2>1
    DEF CopyFails, RenameFails, AbandonUpload, StoreTypeOK, Maybe
  <2> QED
    BY <1>0, <2>2, <2>3, <2>4 DEF StoreTyped, StoreTypeOK
<1>4. ASSUME NEW u \in Uploads, RenameUpload(u)
      PROVE  StoreTyped'
  <2>1. upload[u] \in Upload /\ upload[u].version \in Versions
    BY <1>0, <1>4 DEF RenameUpload, StoreTypeOK, UploadShape
  <2>2. \A w \in Uploads : upload'[w] =
          IF w = u THEN [upload[u] EXCEPT !.pc = "record"] ELSE upload[w]
    BY <1>0, <1>4 DEF RenameUpload, StoreTypeOK
  <2>3. [upload[u] EXCEPT !.pc = "record"] \in Upload
    BY <2>1 DEF Upload
  <2>4. upload' \in [Uploads -> Upload]
    BY <1>0, <1>4, <2>2, <2>3 DEF RenameUpload, StoreTypeOK
  <2>5. UploadShape'
    BY <1>0, <1>4, <2>1, <2>2 DEF RenameUpload, UploadShape, Upload
  <2>6. /\ final' \in [Versions -> Maybe(Inodes)]
        /\ tmp' \in [Versions -> Maybe(Inodes)]
        /\ UNCHANGED <<data, packages, uploads, published, suspect>>
    BY <1>0, <1>4, <2>1 DEF RenameUpload, StoreTypeOK, Maybe
  <2> QED
    BY <1>0, <2>4, <2>5, <2>6 DEF StoreTyped, StoreTypeOK
<1>6. ASSUME NEW u \in Uploads, RecordPackage(u) \/ RecordFails(u)
      PROVE  StoreTyped'
  <2>1. upload[u].version \in Versions /\ upload[u].body \in Builds
    BY <1>0, <1>6 DEF RecordPackage, RecordFails, UploadShape
  <2>2. upload' \in [Uploads -> Upload] /\ UploadShape'
    BY <1>0, <1>6, UploadEnds DEF RecordPackage, RecordFails, StoreTypeOK
  <2>3. /\ packages' \in [Versions -> Maybe(Builds)]
        /\ published' \subseteq Builds /\ suspect' \subseteq Versions
        /\ UNCHANGED <<final, tmp, data, uploads>>
    BY <1>0, <1>6, <2>1
    DEF RecordPackage, RecordFails, StoreTypeOK, Maybe
  <2> QED
    BY <1>0, <2>2, <2>3 DEF StoreTyped, StoreTypeOK
<1>5. ASSUME StoreCrash
      PROVE  StoreTyped'
  <2>1. \A w \in Uploads : upload[w].pc = "record" =>
          upload[w].version \in Versions
    BY <1>0 DEF UploadShape
  <2> QED
    BY <1>0, <1>5, <2>1
    DEF StoreCrash, StoreTyped, StoreTypeOK, UploadShape, Upload, NoUpload,
        Maybe
<1> QED
  BY <1>1, <1>2, <1>3, <1>4, <1>5, <1>6 DEF StoreNext, UploadStep
-----------------------------------------------------------------------------

LEMMA FilesOf ==
  ASSUME NEW v, NEW i
  PROVE  i \in Files(v) <=>
           /\ i # None
           /\ \/ i = final[v] \/ i = tmp[v]
              \/ \E u \in Uploads : upload[u].version = v /\ upload[u].fd = i
BY DEF Files, Of

LEMMA FilesOfNext ==
  ASSUME NEW v, NEW i
  PROVE  i \in Files(v)' <=>
           /\ i # None
           /\ \/ i = final'[v] \/ i = tmp'[v]
              \/ \E u \in Uploads : upload'[u].version = v /\ upload'[u].fd = i
BY DEF Files, Of

\* What each step does to the uploads, seen from one of them.
LEMMA Effects ==
  ASSUME StoreTyped, NEW u \in Uploads
  PROVE  /\ Copy(u) =>
              \A x \in Uploads : upload'[x] =
                IF x = u THEN [upload[u] EXCEPT !.pc = "rename", !.fd = None]
                ELSE upload[x]
         /\ RenameUpload(u) =>
              \A x \in Uploads : upload'[x] =
                IF x = u THEN [upload[u] EXCEPT !.pc = "record"]
                ELSE upload[x]
         /\ CopyFails(u) \/ RenameFails(u) \/ RecordPackage(u) \/ RecordFails(u)
              => \A x \in Uploads :
                   upload'[x] = IF x = u THEN NoUpload ELSE upload[x]
BY DEF StoreTyped, StoreTypeOK, Copy, RenameUpload, CopyFails, RenameFails,
       RecordPackage, RecordFails, AbandonUpload

\* The same in the terms the invariant is stated in.
LEMMA Closing ==
  ASSUME StoreTyped, NEW u \in Uploads,
         CopyFails(u) \/ RenameFails(u) \/ RecordPackage(u) \/ RecordFails(u)
  PROVE  /\ \A v \in Versions : Of(v)' = Of(v) \ {u}
         /\ \A x \in Uploads \ {u} : upload'[x] = upload[x]
         /\ upload'[u] = NoUpload
<1>1. \A x \in Uploads : upload'[x] = IF x = u THEN NoUpload ELSE upload[x]
  BY Effects
<1>2. None \notin Versions
  BY StoreConstants
<1>3. upload'[u].version = None
  BY <1>1 DEF NoUpload
<1>4. \A v \in Versions : Of(v)' = Of(v) \ {u}
  BY <1>1, <1>2, <1>3 DEF Of
<1> QED
  BY <1>1, <1>4

LEMMA Advancing ==
  ASSUME StoreTyped, NEW u \in Uploads, Copy(u) \/ RenameUpload(u)
  PROVE  /\ \A v \in Versions : Of(v)' = Of(v)
         /\ \A x \in Uploads \ {u} : upload'[x] = upload[x]
         /\ upload'[u].version = upload[u].version
         /\ upload'[u].body = upload[u].body
         /\ upload'[u].alone = upload[u].alone
         /\ upload'[u].pc = IF Copy(u) THEN "rename" ELSE "record"
         /\ upload'[u].fd = None
<1>1. upload[u] \in Upload
  BY DEF StoreTyped, StoreTypeOK
<1>2. \A x \in Uploads : upload'[x] =
        IF x # u THEN upload[x]
        ELSE IF Copy(u) THEN [upload[u] EXCEPT !.pc = "rename", !.fd = None]
        ELSE [upload[u] EXCEPT !.pc = "record"]
  BY Effects
<1>3. RenameUpload(u) => upload[u].pc = "rename" /\ upload[u].fd = None
  BY DEF RenameUpload, StoreTyped, UploadShape
<1>4. /\ upload'[u].version = upload[u].version
      /\ upload'[u].body = upload[u].body
      /\ upload'[u].alone = upload[u].alone
      /\ upload'[u].pc = IF Copy(u) THEN "rename" ELSE "record"
      /\ upload'[u].fd = None
  <2>1. CASE Copy(u)
    <3>1. upload'[u] = [upload[u] EXCEPT !.pc = "rename", !.fd = None]
      BY <1>2, <2>1, Zenon
    <3> QED
      BY <1>1, <2>1, <3>1 DEF Upload
  <2>2. CASE ~ Copy(u)
    <3>1. upload'[u] = [upload[u] EXCEPT !.pc = "record"] /\ upload[u].fd = None
      BY <1>2, <1>3, <2>2, Zenon
    <3> QED
      BY <1>1, <2>2, <3>1 DEF Upload
  <2> QED
    BY <2>1, <2>2
<1>5. \A x \in Uploads : upload'[x].version = upload[x].version
  BY <1>2, <1>4
<1> QED
  BY <1>2, <1>4, <1>5 DEF Of

LEMMA Opening ==
  ASSUME StoreTyped, NEW u \in Uploads, NEW v \in Versions, NEW b \in Builds,
         NEW i, upload[u].pc = "idle", upload' = Opened(u, v, b, i)
  PROVE  /\ Of(v)' = Of(v) \union {u}
         /\ \A w \in Versions \ {v} : Of(w)' = Of(w)
         /\ upload'[u].pc = "copy" /\ upload'[u].version = v
         /\ upload'[u].body = b /\ upload'[u].fd = i
         /\ upload'[u].alone => Of(v) = {}
         /\ \A x \in Uploads \ {u} :
              /\ upload'[x].pc = upload[x].pc
              /\ upload'[x].version = upload[x].version
              /\ upload'[x].body = upload[x].body
              /\ upload'[x].fd = upload[x].fd
              /\ upload'[x].alone => upload[x].alone /\ x \notin Of(v)
<1>1. upload[u].version = None /\ None \notin Versions
  BY StoreConstants DEF StoreTyped, UploadShape
<1>2. /\ upload'[u].pc = "copy" /\ upload'[u].version = v
      /\ upload'[u].body = b /\ upload'[u].fd = i
      /\ upload'[u].alone => Of(v) = {}
  BY DEF Opened
<1>3. ASSUME NEW x \in Uploads \ {u}
      PROVE  /\ upload'[x].pc = upload[x].pc
             /\ upload'[x].version = upload[x].version
             /\ upload'[x].body = upload[x].body
             /\ upload'[x].fd = upload[x].fd
             /\ upload'[x].alone => upload[x].alone /\ x \notin Of(v)
  <2>1. upload[x] \in Upload
    BY DEF StoreTyped, StoreTypeOK
  <2>2. upload'[x] =
          [upload[x] EXCEPT !.alone = upload[x].alone /\ x \notin Of(v)]
    BY DEF Opened
  <2> QED
    BY <2>1, <2>2 DEF Upload
<1> QED
  BY <1>1, <1>2, <1>3 DEF Of

-----------------------------------------------------------------------------

\* The file an upload opens is of no other version, and is not being served.
LEMMA CandidateApart ==
  ASSUME StoreTyped, Apart, NEW v \in Versions, NEW i \in Candidate(v)
  PROVE  /\ i \in Inodes /\ i # None /\ i # final[v]
         /\ \A w \in Versions \ {v} : i \notin Files(w)
<1>1. tmp \in [Versions -> Maybe(Inodes)]
  BY DEF StoreTyped, StoreTypeOK
<1>2. CASE tmp[v] # None
  <2>1. i = tmp[v] /\ i \in Files(v)
    BY <1>2, FilesOf DEF Candidate
  <2> QED
    BY <1>1, <1>2, <2>1 DEF Apart, Maybe
<1>3. CASE tmp[v] = None
  <2>1. i \in Inodes /\ i \notin Referenced
    BY <1>3 DEF Candidate
  <2>2. \A w \in Versions : i # final[w] /\ i # tmp[w]
    BY <2>1 DEF Referenced
  <2>3. \A u \in Uploads : i # upload[u].fd
    BY <2>1 DEF Referenced
  <2> QED
    BY <2>1, <2>2, <2>3, FilesOf, StoreConstants
<1> QED
  BY <1>2, <1>3

LEMMA ApartStep ==
  ASSUME StoreTyped, Apart, StoreNext
  PROVE  Apart'
<1>0. /\ final \in [Versions -> Maybe(Inodes)]
      /\ tmp \in [Versions -> Maybe(Inodes)]
      /\ \A u \in Uploads : upload[u].pc # "idle" => upload[u].version \in Versions
  BY DEF StoreTyped, StoreTypeOK, UploadShape
<1>1. ASSUME NEW u \in Uploads, NEW v \in Versions, NEW b \in Builds,
             OpenUpload(u, v, b)
      PROVE  Apart'
  <2>1. PICK i \in Candidate(v) :
          tmp' = [tmp EXCEPT ![v] = i] /\ upload' = Opened(u, v, b, i)
    BY <1>1 DEF OpenUpload
  <2>2. /\ i # final[v] /\ \A w \in Versions \ {v} : i \notin Files(w)
    BY <2>1, CandidateApart
  <2>3. final' = final /\ upload[u].pc = "idle"
    BY <1>1 DEF OpenUpload
  <2>4. \A x \in Uploads : x # u =>
          upload'[x].version = upload[x].version /\ upload'[x].fd = upload[x].fd
    BY <2>1, <2>3, Opening
  <2>5. upload'[u].version = v /\ upload'[u].fd = i
    BY <2>1, <2>3, Opening
  <2>6. Files(v)' \subseteq Files(v) \union {i}
    <3>1. ASSUME NEW j \in Files(v)', j # i
          PROVE  j \in Files(v)
      <4>1. j # None
        BY <3>1, FilesOfNext
      <4>2. CASE j = final'[v]
        BY <4>1, <4>2, <2>3, FilesOf
      <4>3. CASE j = tmp'[v]
        BY <4>3, <2>1, <3>1, <1>0
      <4>4. CASE \E x \in Uploads :
                   upload'[x].version = v /\ upload'[x].fd = j
        BY <4>1, <4>4, <2>4, <2>5, <3>1, FilesOf
      <4> QED
        BY <3>1, <4>2, <4>3, <4>4, FilesOfNext
    <3> QED
      BY <3>1
  <2>7. ASSUME NEW w \in Versions, w # v
        PROVE  Files(w)' \subseteq Files(w)
    <3>1. final'[w] = final[w] /\ tmp'[w] = tmp[w]
      BY <2>1, <2>3, <2>7, <1>0
    <3> QED
      BY <2>4, <2>5, <2>7, <3>1, FilesOf, FilesOfNext
  <2>8. ASSUME NEW w \in Versions, tmp'[w] # None
        PROVE  tmp'[w] # final'[w]
    BY <1>0, <2>1, <2>2, <2>3, <2>8 DEF Apart
  <2> QED
    BY <2>2, <2>6, <2>7, <2>8 DEF Apart
<1>2. ASSUME \A v \in Versions : Files(v)' \subseteq Files(v),
             \A v \in Versions : tmp'[v] # None =>
               tmp'[v] = tmp[v] /\ final'[v] = final[v]
      PROVE  Apart'
  BY <1>2 DEF Apart
<1>3. ASSUME NEW u \in Uploads, Copy(u) \/ CopyFails(u) \/ RenameFails(u)
                                \/ RecordPackage(u) \/ RecordFails(u)
      PROVE  Apart'
  <2>1. final' = final /\ \A v \in Versions : tmp'[v] \in {tmp[v], None}
    BY <1>0, <1>3 DEF Copy, CopyFails, RenameFails, RecordPackage, RecordFails,
                      AbandonUpload
  <2>2. \A x \in Uploads : upload'[x].fd # None =>
          upload'[x].version = upload[x].version /\ upload'[x].fd = upload[x].fd
    BY <1>3, Closing, Advancing DEF NoUpload
  <2>3. \A v \in Versions : Files(v)' \subseteq Files(v)
    BY <2>1, <2>2, FilesOf, FilesOfNext
  <2> QED
    BY <1>2, <2>1, <2>3
<1>4. ASSUME NEW u \in Uploads, RenameUpload(u)
      PROVE  Apart'
  <2>1. PICK v \in Versions : v = upload[u].version
    BY <1>0, <1>4 DEF RenameUpload
  <2>2. /\ final' = [final EXCEPT ![v] = tmp[v]]
        /\ tmp' = [tmp EXCEPT ![v] = None]
    BY <1>4, <2>1 DEF RenameUpload
  <2>3. \A x \in Uploads : upload'[x].fd # None =>
          upload'[x].version = upload[x].version /\ upload'[x].fd = upload[x].fd
    BY <1>4, Advancing
  <2>4. \A w \in Versions : Files(w)' \subseteq Files(w)
    BY <1>0, <2>2, <2>3, FilesOf, FilesOfNext
  <2>5. \A w \in Versions : tmp'[w] # None =>
          tmp'[w] = tmp[w] /\ final'[w] = final[w]
    BY <1>0, <2>2
  <2> QED
    BY <1>2, <2>4, <2>5
<1>5. ASSUME StoreCrash
      PROVE  Apart'
  <2>1. final' = final /\ tmp' = tmp
        /\ \A x \in Uploads : upload'[x].fd = None
    BY <1>5 DEF StoreCrash, NoUpload
  <2>2. \A w \in Versions : Files(w)' \subseteq Files(w)
    BY <2>1, FilesOf, FilesOfNext
  <2> QED
    BY <1>2, <2>1, <2>2
<1> QED
  BY <1>1, <1>3, <1>4, <1>5 DEF StoreNext, UploadStep

-----------------------------------------------------------------------------

\* An upload keeps what it wrote while nobody touches its version.
LEMMA WholeKept ==
  ASSUME StoreTyped, NEW x \in Uploads, Whole(x),
         upload'[x].pc = upload[x].pc,
         upload'[x].version = upload[x].version,
         upload'[x].body = upload[x].body,
         upload'[x].fd = upload[x].fd,
         upload'[x].alone => upload[x].alone,
         NEW v, v = upload[x].version,
         Of(v)' = Of(v), final'[v] = final[v], tmp'[v] = tmp[v],
         \A j : j # None /\ j \in {final[v], tmp[v]} => data'[j] = data[j]
  PROVE  Whole(x)'
<1>1. upload[x].pc = "copy" => upload[x].fd # None
  BY DEF StoreTyped, UploadShape
<1> QED
  BY <1>1 DEF Whole

\* A step on one version leaves the uploads of the others as they are; those
\* of that version are not alone.
LEMMA OthersKept ==
  ASSUME StoreTyped, Apart, AloneIsWhole,
         NEW u \in Uploads, NEW x \in Uploads \ {u}, NEW v \in Versions,
         upload'[x].pc = upload[x].pc,
         upload'[x].version = upload[x].version,
         upload'[x].body = upload[x].body,
         upload'[x].fd = upload[x].fd,
         upload'[x].alone => upload[x].alone,
         upload[u].version = v \/ (upload'[x].alone => x \notin Of(v)),
         \A w \in Versions \ {v} :
           Of(w)' = Of(w) /\ final'[w] = final[w] /\ tmp'[w] = tmp[w],
         \A w \in Versions \ {v} : \A j \in Files(w) : data'[j] = data[j]
  PROVE  Whole(x)'
<1>1. CASE upload[x].pc = "idle" \/ ~ upload'[x].alone
  BY <1>1 DEF Whole
<1>2. CASE upload[x].pc # "idle" /\ upload'[x].alone
  <2>1. PICK w \in Versions : w = upload[x].version
    BY <1>2 DEF StoreTyped, UploadShape
  <2>2. x \in Of(w) /\ Of(w) = {x}
    BY <1>2, <2>1 DEF AloneIsWhole, Whole, Of
  <2>3. w # v
    BY <1>2, <2>1, <2>2 DEF Of
  <2>4. \A j : j # None /\ j \in {final[w], tmp[w]} => j \in Files(w)
    BY FilesOf
  <2> QED
    BY <2>1, <2>3, <2>4, WholeKept DEF AloneIsWhole
<1> QED
  BY <1>1, <1>2

LEMMA AloneStep ==
  ASSUME StoreTyped, Apart, AloneIsWhole, StoreNext
  PROVE  AloneIsWhole'
<1>0. /\ final \in [Versions -> Maybe(Inodes)]
      /\ tmp \in [Versions -> Maybe(Inodes)]
      /\ data \in [Inodes -> Contents]
      /\ \A u \in Uploads : upload[u].pc # "idle" => upload[u].version \in Versions
  BY DEF StoreTyped, StoreTypeOK, UploadShape
<1>1. ASSUME NEW u \in Uploads, NEW v \in Versions, NEW b \in Builds,
             OpenUpload(u, v, b)
      PROVE  AloneIsWhole'
  <2>1. PICK i \in Candidate(v) :
          /\ tmp' = [tmp EXCEPT ![v] = i] /\ upload' = Opened(u, v, b, i)
          /\ data' = [data EXCEPT ![i] = Empty]
    BY <1>1 DEF OpenUpload
  <2>2. /\ i \in Inodes
        /\ \A w \in Versions \ {v} : i \notin Files(w)
    BY <2>1, CandidateApart
  <2>3. final' = final /\ upload[u].pc = "idle"
    BY <1>1 DEF OpenUpload
  <2>4. \A w \in Versions \ {v} :
          Of(w)' = Of(w) /\ final'[w] = final[w] /\ tmp'[w] = tmp[w]
    BY <1>0, <2>1, <2>3, Opening
  <2>5. \A w \in Versions \ {v} : \A j \in Files(w) : data'[j] = data[j]
    BY <1>0, <2>1, <2>2
  <2>6. ASSUME NEW x \in Uploads \ {u}
        PROVE  Whole(x)'
    BY <2>1, <2>3, <2>4, <2>5, Opening, OthersKept
  <2>7. Whole(u)'
    <3>1. /\ upload'[u].pc = "copy" /\ upload'[u].version = v
          /\ upload'[u].fd = i /\ Of(v)' = Of(v) \union {u}
          /\ upload'[u].alone => Of(v) = {}
      BY <2>1, <2>3, Opening
    <3>2. tmp'[v] = i /\ data'[i] = Empty
      BY <1>0, <2>1, <2>2
    <3> QED
      BY <3>1, <3>2 DEF Whole
  <2> QED
    BY <2>6, <2>7 DEF AloneIsWhole
<1>2. ASSUME NEW u \in Uploads, Copy(u)
      PROVE  AloneIsWhole'
  <2>1. PICK v \in Versions : v = upload[u].version
    BY <1>0, <1>2 DEF Copy
  <2>2. upload[u].fd \in Files(v) /\ upload[u].fd \in Inodes
    BY <1>2, <2>1, FilesOf
    DEF Copy, StoreTyped, StoreTypeOK, UploadShape, Upload, Maybe
  <2>3. PICK c \in Written(u) : data' = [data EXCEPT ![upload[u].fd] = c]
    BY <1>2 DEF Copy
  <2>4. final' = final /\ tmp' = tmp
    BY <1>2 DEF Copy
  <2>5. \A w \in Versions \ {v} : \A j \in Files(w) : data'[j] = data[j]
    BY <1>0, <2>2, <2>3 DEF Apart
  <2>6. ASSUME NEW x \in Uploads \ {u}
        PROVE  Whole(x)'
    BY <1>2, <2>1, <2>4, <2>5, Advancing, OthersKept
  <2>7. Whole(u)'
    <3>1. /\ upload'[u].pc = "rename" /\ upload'[u].version = v
          /\ upload'[u].body = upload[u].body
          /\ upload'[u].alone = upload[u].alone /\ Of(v)' = Of(v)
      BY <1>2, <2>1, Advancing
    <3>2. CASE upload[u].alone
      <4>1. /\ Of(v) = {u} /\ tmp[v] = upload[u].fd
            /\ data[upload[u].fd] = Empty
        BY <1>2, <2>1, <3>2 DEF Copy, AloneIsWhole, Whole
      <4>2. c = upload[u].body
        BY <2>3, <4>1 DEF Written
      <4>3. tmp'[v] # None /\ data'[tmp'[v]] = upload[u].body
        BY <1>0, <2>2, <2>3, <2>4, <4>1, <4>2, StoreConstants
      <4> QED
        BY <3>1, <4>1, <4>3 DEF Whole
    <3> QED
      BY <3>1, <3>2 DEF Whole
  <2> QED
    BY <2>6, <2>7 DEF AloneIsWhole
<1>3. ASSUME NEW u \in Uploads, CopyFails(u) \/ RenameFails(u)
                                \/ RecordPackage(u) \/ RecordFails(u)
      PROVE  AloneIsWhole'
  <2>1. PICK v \in Versions : v = upload[u].version
    BY <1>0, <1>3 DEF CopyFails, RenameFails, RecordPackage, RecordFails
  <2>2. /\ final' = final
        /\ \A w \in Versions \ {v} : tmp'[w] = tmp[w]
    BY <1>0, <1>3, <2>1
    DEF CopyFails, RenameFails, RecordPackage, RecordFails, AbandonUpload
  <2>3. \A w \in Versions \ {v} : \A j \in Files(w) : data'[j] = data[j]
    <3>1. CASE CopyFails(u)
      <4>1. upload[u].fd \in Files(v) /\ upload[u].fd \in Inodes
        BY <3>1, <2>1, FilesOf
        DEF CopyFails, StoreTyped, StoreTypeOK, UploadShape, Upload, Maybe
      <4> QED
        BY <1>0, <3>1, <4>1 DEF CopyFails, Apart
    <3>2. CASE ~ CopyFails(u)
      BY <1>3, <3>2 DEF RenameFails, RecordPackage, RecordFails
    <3> QED
      BY <3>1, <3>2
  <2>4. \A w \in Versions \ {v} : Of(w)' = Of(w)
    BY <1>3, <2>1, Closing DEF Of
  <2>5. ASSUME NEW x \in Uploads \ {u}
        PROVE  Whole(x)'
    BY <1>3, <2>1, <2>2, <2>3, <2>4, <2>5, Closing, OthersKept
  <2>6. Whole(u)'
    BY <1>3, Closing DEF Whole, NoUpload
  <2> QED
    BY <2>5, <2>6 DEF AloneIsWhole
<1>4. ASSUME NEW u \in Uploads, RenameUpload(u)
      PROVE  AloneIsWhole'
  <2>1. PICK v \in Versions : v = upload[u].version
    BY <1>0, <1>4 DEF RenameUpload
  <2>2. /\ final' = [final EXCEPT ![v] = tmp[v]]
        /\ tmp' = [tmp EXCEPT ![v] = None]
        /\ data' = data /\ tmp[v] # None /\ upload[u].pc = "rename"
    BY <1>4, <2>1 DEF RenameUpload
  <2>3. \A w \in Versions \ {v} : final'[w] = final[w] /\ tmp'[w] = tmp[w]
    BY <1>0, <2>2
  <2>4. ~ Copy(u)
    BY <2>2 DEF Copy
  <2>5. ASSUME NEW x \in Uploads \ {u}
        PROVE  Whole(x)'
    BY <1>4, <2>1, <2>2, <2>3, <2>5, Advancing, OthersKept
  <2>6. Whole(u)'
    <3>1. /\ upload'[u].pc = "record" /\ upload'[u].version = v
          /\ upload'[u].body = upload[u].body
          /\ upload'[u].alone = upload[u].alone /\ Of(v)' = Of(v)
      BY <1>4, <2>1, <2>4, Advancing
    <3>2. final'[v] = tmp[v]
      BY <1>0, <2>2
    <3>3. upload[u].alone => Of(v) = {u} /\ data[tmp[v]] = upload[u].body
      BY <2>1, <2>2 DEF AloneIsWhole, Whole
    <3> QED
      BY <2>2, <3>1, <3>2, <3>3 DEF Whole
  <2> QED
    BY <2>5, <2>6 DEF AloneIsWhole
<1>5. ASSUME StoreCrash
      PROVE  AloneIsWhole'
  BY <1>5 DEF StoreCrash, NoUpload, AloneIsWhole, Whole
<1> QED
  BY <1>1, <1>2, <1>3, <1>4, <1>5 DEF StoreNext, UploadStep

-----------------------------------------------------------------------------

\* A version goes on serving what it serves while none of its uploads moves.
LEMMA ServesKept ==
  ASSUME NEW v \in Versions, Serves(v),
         v \notin suspect' => v \notin suspect,
         Of(v)' = Of(v), final'[v] = final[v], packages'[v] = packages[v],
         \A x \in Of(v) : upload'[x].pc = upload[x].pc
                          /\ upload'[x].fd = upload[x].fd,
         final[v] # None => data'[final[v]] = data[final[v]]
  PROVE  Serves(v)'
BY DEF Serves, Quiet

\* So it does while one of them writes another file, or gives up.
LEMMA ServesDespite ==
  ASSUME NEW v \in Versions, Serves(v), NEW u \in Uploads,
         upload[u].pc # "record",
         v \notin suspect' => v \notin suspect,
         Of(v)' \subseteq Of(v) \union {u}, Of(v) \subseteq Of(v)' \union {u},
         final'[v] = final[v], packages'[v] = packages[v],
         \A x \in Of(v) \ {u} : upload'[x].pc = upload[x].pc
                                /\ upload'[x].fd = upload[x].fd,
         upload'[u].fd # final[v] \/ upload'[u].fd = None,
         Quiet(v) /\ final[v] # None /\ v \notin suspect =>
           data'[final[v]] = data[final[v]]
  PROVE  Serves(v)'
BY DEF Serves, Quiet

LEMMA QuietStep ==
  ASSUME StoreTyped, Apart, AloneIsWhole, QuietServes, StoreNext
  PROVE  QuietServes'
<1>0. /\ final \in [Versions -> Maybe(Inodes)]
      /\ tmp \in [Versions -> Maybe(Inodes)]
      /\ data \in [Inodes -> Contents]
      /\ packages \in [Versions -> Maybe(Builds)]
      /\ \A u \in Uploads : upload[u].pc # "idle" => upload[u].version \in Versions
  BY DEF StoreTyped, StoreTypeOK, UploadShape
<1>a. \A w \in Versions : final[w] # None =>
        final[w] \in Files(w) /\ final[w] \in Inodes
  BY <1>0, FilesOf DEF Maybe
<1>1. ASSUME NEW u \in Uploads, NEW v \in Versions, NEW b \in Builds,
             OpenUpload(u, v, b)
      PROVE  QuietServes'
  <2>1. PICK i \in Candidate(v) :
          /\ tmp' = [tmp EXCEPT ![v] = i] /\ upload' = Opened(u, v, b, i)
          /\ data' = [data EXCEPT ![i] = Empty]
    BY <1>1 DEF OpenUpload
  <2>2. /\ i \in Inodes /\ i # None /\ i # final[v]
        /\ \A w \in Versions \ {v} : i \notin Files(w)
    BY <2>1, CandidateApart
  <2>3. /\ UNCHANGED <<final, packages, suspect>> /\ upload[u].pc = "idle"
    BY <1>1 DEF OpenUpload
  <2>4. \A w \in Versions : final[w] # None => data'[final[w]] = data[final[w]]
    BY <1>0, <1>a, <2>1, <2>2
  <2>5. /\ Of(v)' = Of(v) \union {u} /\ upload'[u].fd = i
        /\ \A w \in Versions \ {v} : Of(w)' = Of(w)
        /\ \A x \in Uploads \ {u} : upload'[x].pc = upload[x].pc
                                    /\ upload'[x].fd = upload[x].fd
    BY <2>1, <2>3, Opening
  <2>6. u \notin UNION {Of(w) : w \in Versions}
    BY <2>3, StoreConstants DEF Of, StoreTyped, UploadShape
  <2>7. ASSUME NEW w \in Versions
        PROVE  Serves(w)'
    <3>1. Serves(w)
      BY DEF QuietServes
    <3>2. CASE w = v
      <4>1. upload[u].pc # "record" /\ \A x \in Of(v) \ {u} : x \in Uploads
        BY <2>3 DEF Of
      <4> QED
        BY <2>2, <2>3, <2>4, <2>5, <3>1, <3>2, <4>1, ServesDespite
    <3>3. CASE w # v
      <4>1. \A x \in Of(w) : x \in Uploads \ {u}
        BY <2>6 DEF Of
      <4> QED
        BY <2>3, <2>4, <2>5, <3>1, <3>3, <4>1, ServesKept
    <3> QED
      BY <3>2, <3>3
  <2> QED
    BY <2>7 DEF QuietServes
<1>2. ASSUME NEW u \in Uploads, Copy(u) \/ CopyFails(u) \/ RenameFails(u)
      PROVE  QuietServes'
  <2>1. PICK v \in Versions : v = upload[u].version
    BY <1>0, <1>2 DEF Copy, CopyFails, RenameFails
  <2>2. /\ UNCHANGED <<final, packages, suspect>>
        /\ upload[u].pc # "record" /\ u \in Of(v)
    BY <1>2, <2>1 DEF Copy, CopyFails, RenameFails, AbandonUpload, Of
  <2>3. /\ upload'[u].fd = None
        /\ \A x \in Uploads \ {u} : upload'[x] = upload[x]
        /\ \A w \in Versions \ {v} : Of(w)' = Of(w)
        /\ Of(v)' \subseteq Of(v) /\ Of(v) \subseteq Of(v)' \union {u}
    BY <1>2, <2>1, Closing, Advancing DEF NoUpload, Of
  <2>4. \A j \in Inodes : j # upload[u].fd => data'[j] = data[j]
    BY <1>0, <1>2 DEF Copy, CopyFails, RenameFails
  <2>5. \A w \in Versions \ {v} : final[w] # None => final[w] # upload[u].fd
    BY <1>a, <2>1, FilesOf DEF Apart
  <2>6. ASSUME NEW w \in Versions
        PROVE  Serves(w)'
    <3>1. Serves(w)
      BY DEF QuietServes
    <3>2. CASE w = v
      <4>1. Quiet(v) /\ final[v] # None /\ v \notin suspect =>
              data'[final[v]] = data[final[v]]
        BY <1>a, <2>2, <2>4, <3>1, <3>2 DEF Serves
      <4>2. Of(v) \subseteq Uploads
        BY DEF Of
      <4> QED
        BY <2>2, <2>3, <3>1, <3>2, <4>1, <4>2, ServesDespite
    <3>3. CASE w # v
      <4>1. \A x \in Of(w) : x \in Uploads \ {u}
        BY <2>1, <3>3 DEF Of
      <4> QED
        BY <1>a, <2>2, <2>3, <2>4, <2>5, <3>1, <3>3, <4>1, ServesKept
    <3> QED
      BY <3>2, <3>3
  <2> QED
    BY <2>6 DEF QuietServes
<1>3. ASSUME NEW u \in Uploads, RenameUpload(u)
      PROVE  QuietServes'
  <2>1. PICK v \in Versions : v = upload[u].version
    BY <1>0, <1>3 DEF RenameUpload
  <2>2. /\ final' = [final EXCEPT ![v] = tmp[v]]
        /\ UNCHANGED <<data, packages, suspect>>
        /\ upload[u].pc = "rename"
    BY <1>3, <2>1 DEF RenameUpload
  <2>3. /\ \A w \in Versions : Of(w)' = Of(w)
        /\ \A x \in Uploads \ {u} : upload'[x] = upload[x]
        /\ upload'[u].pc = "record"
    BY <1>3, <2>2, Advancing DEF Copy
  <2>4. Serves(v)'
    <3>1. u \in Of(v)'
      BY <2>1, <2>3 DEF Of
    <3> QED
      BY <2>3, <3>1 DEF Serves, Quiet
  <2>5. ASSUME NEW w \in Versions \ {v}
        PROVE  Serves(w)'
    <3>1. Serves(w) /\ \A x \in Of(w) : x \in Uploads \ {u}
      BY <2>1 DEF QuietServes, Of
    <3>2. final'[w] = final[w]
      BY <1>0, <2>2
    <3> QED
      BY <2>2, <2>3, <3>1, <3>2, ServesKept
  <2> QED
    BY <2>4, <2>5 DEF QuietServes
<1>4. ASSUME NEW u \in Uploads, RecordPackage(u) \/ RecordFails(u)
      PROVE  QuietServes'
  <2>1. PICK v \in Versions : v = upload[u].version
    BY <1>0, <1>4 DEF RecordPackage, RecordFails
  <2>2. /\ UNCHANGED <<final, data>>
        /\ \A w \in Versions \ {v} :
             packages'[w] = packages[w] /\ (w \in suspect <=> w \in suspect')
    BY <1>0, <1>4, <2>1 DEF RecordPackage, RecordFails
  <2>3. /\ \A w \in Versions : Of(w)' = Of(w) \ {u}
        /\ \A x \in Uploads \ {u} : upload'[x] = upload[x]
    BY <1>4, Closing
  <2>4. Serves(v)'
    <3>1. CASE v \in suspect'
      BY <3>1 DEF Serves
    <3>2. CASE v \notin suspect'
      <4>1. /\ RecordPackage(u) /\ upload[u].alone /\ upload[u].pc = "record"
        BY <1>4, <2>1, <3>2 DEF RecordPackage, RecordFails
      <4>2. /\ Of(v) = {u} /\ final[v] # None
            /\ data[final[v]] = upload[u].body
        BY <2>1, <4>1 DEF AloneIsWhole, Whole
      <4>3. packages'[v] = upload[u].body
        BY <1>0, <2>1, <4>1 DEF RecordPackage
      <4> QED
        BY <2>2, <2>3, <4>2, <4>3 DEF Serves
    <3> QED
      BY <3>1, <3>2
  <2>5. ASSUME NEW w \in Versions \ {v}
        PROVE  Serves(w)'
    <3>1. Serves(w) /\ \A x \in Of(w) : x \in Uploads \ {u}
      BY <2>1 DEF QuietServes, Of
    <3>2. Of(w)' = Of(w)
      BY <2>3, <3>1
    <3> QED
      BY <2>2, <2>3, <3>1, <3>2, ServesKept
  <2> QED
    BY <2>4, <2>5 DEF QuietServes
<1>5. ASSUME StoreCrash
      PROVE  QuietServes'
  <2>1. /\ UNCHANGED <<final, data, packages>>
        /\ \A v \in Versions : v \notin suspect' => v \notin suspect /\ Quiet(v)
    BY <1>5 DEF StoreCrash, Quiet, Of
  <2>2. \A v \in Versions : Of(v)' = {}
    BY <1>5, StoreConstants DEF StoreCrash, NoUpload, Of
  <2> QED
    BY <2>1, <2>2 DEF QuietServes, Serves
<1> QED
  BY <1>1, <1>2, <1>3, <1>4, <1>5 DEF StoreNext, UploadStep

-----------------------------------------------------------------------------

\* The four parts together are inductive over the steps of the store.
LEMMA StoreInvInit == StoreInit => StoreInv
<1> SUFFICES ASSUME StoreInit
             PROVE  StoreInv
  OBVIOUS
<1>1. StoreTyped
  BY StoreTypedInit
<1>2. \A u \in Uploads : upload[u].pc = "idle" /\ upload[u].fd = None
  BY DEF StoreInit, NoUpload
<1>3. \A v \in Versions :
        final[v] = None /\ tmp[v] = None /\ packages[v] = None
  BY DEF StoreInit
<1>4. Apart
  BY <1>2, <1>3 DEF Apart, Files, Of
<1>5. AloneIsWhole
  BY <1>2 DEF AloneIsWhole, Whole
<1>6. QuietServes
  BY <1>3 DEF QuietServes, Serves
<1> QED
  BY <1>1, <1>4, <1>5, <1>6 DEF StoreInv

LEMMA StoreInvStep ==
  ASSUME StoreInv, [StoreNext]_storeVars
  PROVE  StoreInv'
<1>1. CASE StoreNext
  BY <1>1, StoreTypedStep, ApartStep, AloneStep, QuietStep DEF StoreInv
<1>2. CASE UNCHANGED storeVars
  <2> USE <1>2 DEF storeVars
  <2>1. StoreTyped'
    BY DEF StoreInv, StoreTyped, StoreTypeOK, UploadShape
  <2>2. Apart'
    <3>1. UNCHANGED <<final, tmp, upload>>
      OBVIOUS
    <3>2. \A v : Files(v)' = Files(v)
      BY <3>1, Zenon DEF Files, Of
    <3> QED
      BY <3>1, <3>2, Zenon DEF StoreInv, Apart
  <2>3. AloneIsWhole'
    BY DEF StoreInv, AloneIsWhole, Whole, Of
  <2>4. QuietServes'
    BY DEF StoreInv, QuietServes, Serves, Quiet, Of
  <2> QED
    BY <2>1, <2>2, <2>3, <2>4 DEF StoreInv
<1> QED
  BY <1>1, <1>2

LEMMA StoreServes == StoreInv => ServesRecorded
BY StoreConstants
DEF StoreInv, QuietServes, Serves, Quiet, ServesRecorded

=============================================================================
