---------------------------- MODULE ConfigApply ----------------------------
(***************************************************************************)
(* The config file of one agent, down to the inode: validateAndApply       *)
(* (opamp.go), which every handleRemoteConfig goroutine runs, and the save *)
(* of the local editor (model.rs).  Both write a candidate next to the     *)
(* live file and rename it over the live file, and both call the candidate *)
(* config.yaml.tmp.  Names are resolved when a step runs: a writer that    *)
(* opened the candidate keeps its inode even after somebody else renamed   *)
(* or removed the name.                                                    *)
(*                                                                         *)
(* Simplifications: a body is written by one write; the collector accepts  *)
(* neither an empty nor a mixed file; a machine crash (as opposed to a     *)
(* process crash) is not modelled.                                         *)
(***************************************************************************)
CONSTANTS
  Handlers,      \* goroutines of the agent process
  Editors,       \* `sgcia edit` processes
  Configs, Valid, InitialConfig,
  Substituted,   \* Substituted[c]: c with a placeholder for every ${...} string
  Inodes,        \* bound: file objects that exist at the same time
  Empty, Torn,   \* a truncated file, a mix of two bodies
  None,
  Exclusive      \* TRUE: a writer starts only while no other is at work

Writers == Handlers \union Editors
Maybe(S) == S \union {None}
Contents == Configs \union {Empty, Torn}

ASSUME ConfigAssumption ==
  /\ Valid \subseteq Configs /\ InitialConfig \in Valid
  /\ Substituted \in [Configs -> Configs]
  /\ Empty \notin Configs \union {Torn} /\ Torn \notin Configs
  /\ None \notin Contents \union Inodes
  /\ Inodes # {} /\ Handlers \intersect Editors = {}
  /\ Exclusive \in BOOLEAN

VARIABLES
  live,      \* inode named config.yaml
  tmp,       \* inode named config.yaml.tmp, None if there is no such name
  data,      \* data[i]: content of an inode
  pc,        \* pc[w]: the step a writer is at
  body,      \* body[w]: the text it wants to install
  fd,        \* fd[w]: the inode it has open for writing
  accepted,  \* history: what the validator accepted for w, until installed
  interrupted \* history: a process died with a writer at work, or I/O failed

vars == <<live, tmp, data, pc, body, fd, accepted, interrupted>>

TypeOK ==
  /\ live \in Inodes /\ tmp \in Maybe(Inodes)
  /\ data \in [Inodes -> Contents]
  /\ pc \in [Writers -> {"idle", "check", "open", "write", "validate",
                         "rename", "cleanup"}]
  /\ body \in [Writers -> Maybe(Configs)]
  /\ fd \in [Writers -> Maybe(Inodes)]
  /\ accepted \in [Writers -> Maybe(Configs)]
  /\ interrupted \in BOOLEAN

Init ==
  /\ live \in Inodes /\ tmp = None
  /\ data = [i \in Inodes |-> IF i = live THEN InitialConfig ELSE Empty]
  /\ pc = [w \in Writers |-> "idle"]
  /\ body = [w \in Writers |-> None]
  /\ fd = [w \in Writers |-> None]
  /\ accepted = [w \in Writers |-> None]
  /\ interrupted = FALSE

-----------------------------------------------------------------------------

Goto(w, l) == pc' = [pc EXCEPT ![w] = l]

\* An offer arrives, or the user presses 's'.  The editor validates a private
\* copy before it touches the shared name.
Begin(w, c) ==
  /\ pc[w] = "idle"
  /\ Exclusive => \A v \in Writers : pc[v] = "idle"
  /\ Goto(w, IF w \in Editors THEN "check" ELSE "open")
  /\ body' = [body EXCEPT ![w] = c]
  /\ UNCHANGED <<live, tmp, data, fd, accepted, interrupted>>

\* The writer's call returns.
Leave(w) ==
  /\ Goto(w, "idle")
  /\ body' = [body EXCEPT ![w] = None]
  /\ accepted' = [accepted EXCEPT ![w] = None]

\* The exit status of `sgcia-otelcol validate --config`.
BugAccepts(x) == x # Empty
Accepts(x) == x \in Valid

\* validate_with_binary: on a private temporary file, which holds a copy with
\* placeholders; what will be installed is the text itself.
CheckPrivately(w) ==
  /\ pc[w] = "check"
  /\ \/ /\ Accepts(Substituted[body[w]])
        /\ Goto(w, "open")
        /\ accepted' = [accepted EXCEPT ![w] = body[w]]
        /\ UNCHANGED body
     \/ Leave(w)
  /\ UNCHANGED <<live, tmp, data, fd, interrupted>>

Referenced(i) == i \in {live, tmp} \/ \E w \in Writers : fd[w] = i

\* open(O_WRONLY|O_CREATE|O_TRUNC): the file of that name is emptied, whoever
\* is using it; a new one is made if there is none.
OpenTmp(w) ==
  /\ pc[w] = "open"
  /\ \E i \in Inodes :
       /\ IF tmp = None THEN ~ Referenced(i) ELSE i = tmp
       /\ tmp' = i
       /\ fd' = [fd EXCEPT ![w] = i]
       /\ data' = [data EXCEPT ![i] = Empty]
  /\ Goto(w, "write")
  /\ UNCHANGED <<live, body, accepted, interrupted>>

\* Over another writer's bytes the result of a write is this body, or a mix
\* when the other was longer.
BugWritten(w) == {accepted[w]}
Written(w) ==
  {body[w]} \union (IF data[fd[w]] = Empty THEN {} ELSE {Torn})

\* write, fsync, close, on the inode that was opened.
WriteTmp(w) ==
  /\ pc[w] = "write"
  /\ \E x \in Written(w) : data' = [data EXCEPT ![fd[w]] = x]
  /\ fd' = [fd EXCEPT ![w] = None]
  /\ Goto(w, IF w \in Editors THEN "rename" ELSE "validate")
  /\ UNCHANGED <<live, tmp, body, accepted, interrupted>>

\* The validator opens the candidate by name and reads what is there now.  It
\* can also fail on a good file: validateTimeout, or no such file.
Validate(w) ==
  /\ pc[w] = "validate"
  /\ \/ /\ tmp # None /\ Accepts(data[tmp])
        /\ accepted' = [accepted EXCEPT ![w] = data[tmp]]
        /\ Goto(w, "rename")
     \/ /\ Goto(w, "cleanup")
        /\ UNCHANGED accepted
  /\ UNCHANGED <<live, tmp, data, body, fd, interrupted>>

\* After the rename, or its failure, the editor returns; the agent still has
\* its deferred Remove to run.
Renamed(w) ==
  IF w \in Editors THEN Leave(w)
  ELSE /\ Goto(w, "cleanup")
       /\ accepted' = [accepted EXCEPT ![w] = None]
       /\ UNCHANGED body

\* rename(2) of whatever has the name now.
RenameTmp(w) ==
  /\ pc[w] = "rename"
  /\ IF tmp = None THEN UNCHANGED <<live, tmp>> ELSE live' = tmp /\ tmp' = None
  /\ Renamed(w)
  /\ UNCHANGED <<data, fd, interrupted>>

\* open, write, fsync or rename returns an error.  The agent defers the Remove
\* only once the candidate is written; the editor has no cleanup at all.
FailIO(w) ==
  /\ \/ pc[w] = "open" /\ Leave(w) /\ UNCHANGED data
     \/ /\ pc[w] = "write" /\ Leave(w)
        /\ \E x \in {data[fd[w]], Torn} : data' = [data EXCEPT ![fd[w]] = x]
     \/ pc[w] = "rename" /\ Renamed(w) /\ UNCHANGED data
  /\ fd' = [fd EXCEPT ![w] = None]
  /\ interrupted' = TRUE
  /\ UNCHANGED <<live, tmp>>

\* The deferred os.Remove(tmpPath): the name, whosever candidate it is.
BugRemoved(w) == IF accepted[w] = None THEN tmp ELSE None
Removed(w) == None

Cleanup(w) ==
  /\ pc[w] = "cleanup"
  /\ tmp' = Removed(w)
  /\ Leave(w)
  /\ UNCHANGED <<live, data, fd, interrupted>>

\* A process dies (the agent also by its own restart timer) and its writers
\* with it; the candidate stays behind.
Crash(W) ==
  /\ \E w \in W : pc[w] # "idle"
  /\ pc' = [w \in Writers |-> IF w \in W THEN "idle" ELSE pc[w]]
  /\ body' = [w \in Writers |-> IF w \in W THEN None ELSE body[w]]
  /\ fd' = [w \in Writers |-> IF w \in W THEN None ELSE fd[w]]
  /\ accepted' = [w \in Writers |-> IF w \in W THEN None ELSE accepted[w]]
  /\ interrupted' = TRUE
  /\ UNCHANGED <<live, tmp, data>>

Step(w) ==
  \/ CheckPrivately(w) \/ OpenTmp(w) \/ WriteTmp(w) \/ Validate(w)
  \/ RenameTmp(w) \/ Cleanup(w) \/ FailIO(w)

Next ==
  \/ \E w \in Writers, c \in Configs : Begin(w, c)
  \/ \E w \in Writers : Step(w)
  \/ Crash(Handlers)
  \/ \E e \in Editors : Crash({e})

Spec == Init /\ [][Next]_vars

-----------------------------------------------------------------------------

\* The configs that w's validation lets through: the agent's looks at the
\* candidate itself, the editor's at the copy with placeholders.
Vetted ==
  [w \in Writers |->
     {c \in Configs : (IF w \in Editors THEN Substituted[c] ELSE c) \in Valid}]

\* The config file is at all times a whole config that some writer's validation
\* let through: "never partially applies: either the live file ends up
\* byte-identical to a config that just validated, or it isn't touched at all"
\* (opamp.go).
LiveIsValidated ==
  data[live] \in Valid \union UNION {Vetted[w] : w \in Writers}

\* A writer replaces the file by exactly what it had vetted, in one step.
Promise == INSTANCE LiveFile WITH file <- data[live]
ImplementsLiveFile == Promise!Spec

\* A save "never overwrites the good file on disk with an invalid one"
\* (model.rs).  So it is where all writers are agents (AgentsKeepItValid); a save
\* can, since what the editor validates is the copy.
LiveIsValid == data[live] \in Valid

\* No candidate is left behind once every writer is done, unless a process
\* died or the file system failed on the way ("no-op once renamed away on the success path", opamp.go).
NoStrayCandidate ==
  ~ interrupted /\ (\A w \in Writers : pc[w] = "idle") => tmp = None
=============================================================================
