------------------------------ MODULE LogBuffer ------------------------------
(***************************************************************************)
(* logbuffer.go: the ring of log records behind GET /logs, under its       *)
(* mutex.  A push holds the mutex over its loop, one record at a time;     *)
(* Clear and Snapshot do all they do in one critical section.              *)
(***************************************************************************)
EXTENDS Naturals, Sequences

CONSTANTS
  Capacity,   \* logBufferCapacity
  Entry,      \* log records
  Batch,      \* the batches that may be posted
  Query,      \* the filters a reader may ask for, as the entries they keep
  Blank       \* the zero LogEntry

ASSUME BufferAssumption ==
  /\ Capacity \in Nat \ {0}
  /\ Batch \subseteq Seq(Entry)
  /\ Blank \notin Entry

VARIABLES
  entries,    \* the ring, counted from 0
  next, full,
  mu,         \* whether a push holds the mutex
  rest,       \* what that push has still to write
  reply       \* the last answer to GET /logs

bufferVars == <<entries, next, full, mu, rest, reply>>

Ring == 0 .. Capacity - 1

\* newLogBuffer
Emptied ==
  /\ entries' = [i \in Ring |-> Blank]
  /\ next' = 0
  /\ full' = FALSE

BufferInit ==
  /\ entries = [i \in Ring |-> Blank] /\ next = 0 /\ full = FALSE
  /\ mu = FALSE /\ rest = << >>
  /\ reply = << >>

\* Oldest first: what Snapshot copies out before it filters.
BugOrdered == [i \in 1..next |-> entries[i - 1]]
Ordered ==
  IF full THEN [i \in 1..Capacity |-> entries[(next + i - 1) % Capacity]]
  ELSE [i \in 1..next |-> entries[i - 1]]

\* The window a reader is owed once the push at work is through.
Owed ==
  LET all == Ordered \o rest
  IN  SubSeq(all, IF Len(all) > Capacity THEN Len(all) - Capacity + 1 ELSE 1,
             Len(all))

Window == INSTANCE LogWindow WITH window <- Owed

-----------------------------------------------------------------------------

\* Push: b.mu.Lock(), the loop, and the deferred Unlock.
Lock(batch) ==
  /\ ~ mu /\ mu' = TRUE /\ rest' = batch
  /\ UNCHANGED <<entries, next, full, reply>>

BugPut ==
  /\ mu /\ rest # << >>
  /\ entries' = [entries EXCEPT ![next] = Head(rest)]
  /\ next' = (next + 1) % Capacity
  /\ full' = (full \/ next = 0)
  /\ rest' = Tail(rest)
  /\ UNCHANGED <<mu, reply>>
Put ==
  /\ mu /\ rest # << >>
  /\ entries' = [entries EXCEPT ![next] = Head(rest)]
  /\ next' = (next + 1) % Capacity
  /\ full' = (full \/ next' = 0)
  /\ rest' = Tail(rest)
  /\ UNCHANGED <<mu, reply>>

Unlock ==
  /\ mu /\ rest = << >> /\ mu' = FALSE
  /\ UNCHANGED <<entries, next, full, rest, reply>>

Clear ==
  /\ ~ mu
  /\ Emptied
  /\ UNCHANGED <<mu, rest, reply>>

\* Snapshot, with the filters of the request.
Snapshot(keep) ==
  /\ ~ mu
  /\ reply' = Window!Matching(Ordered, keep)
  /\ UNCHANGED <<entries, next, full, mu, rest>>

\* The process dies, perhaps in a push, and starts with an empty buffer.
Reset ==
  /\ Emptied
  /\ mu' = FALSE /\ rest' = << >>
  /\ reply' = reply

BufferNext ==
  \/ \E b \in Batch : Lock(b)
  \/ Put \/ Unlock \/ Clear \/ Reset
  \/ \E keep \in Query : Snapshot(keep)

BufferSpec == BufferInit /\ [][BufferNext]_bufferVars

-----------------------------------------------------------------------------

\* Every slot that Snapshot would copy has been written since the last clear,
\* and nothing is left to write when no push is at work (logBuffer's "zero-
\* valued until first wrap").
RingOK ==
  /\ entries \in [Ring -> Entry \union {Blank}]
  /\ next \in Ring /\ full \in BOOLEAN /\ mu \in BOOLEAN
  /\ rest \in Seq(Entry) /\ (~ mu => rest = << >>)
  /\ \A i \in Ring : full \/ i < next => entries[i] \in Entry

\* "rolling 'what just happened' window ... fixed-capacity, thread-safe ring
\* buffer of the most recently ingested log records" (logBuffer): whatever the
\* handlers do, the ring is a LogWindow.
ImplementsLogWindow == Window!Spec
=============================================================================
