------------------------------ MODULE LogWindow ------------------------------
(***************************************************************************)
(* What the log buffer of the status extension promises: the last Capacity *)
(* records ingested since the process started or the buffer was cleared,   *)
(* in the order they came in.  A posted batch appears as a whole.          *)
(***************************************************************************)
EXTENDS Naturals, Sequences

CONSTANTS
  Capacity,   \* logBufferCapacity
  Batch,      \* the batches that may be posted
  Query       \* the filters a reader may ask for, as the entries they keep

VARIABLES window, reply

\* The last n of a sequence.
LastN(s, n) == SubSeq(s, IF Len(s) > n THEN Len(s) - n + 1 ELSE 1, Len(s))

Matching(s, keep) == LET Kept(e) == e \in keep IN SelectSeq(s, Kept)

Init == window = << >> /\ reply = << >>

Push(b) ==
  /\ window' = LastN(window \o b, Capacity)
  /\ reply' = reply

Clear ==
  /\ window' = << >>
  /\ reply' = reply

Read(keep) ==
  /\ reply' = Matching(window, keep)
  /\ window' = window

Next ==
  \/ \E b \in Batch : Push(b)
  \/ Clear
  \/ \E keep \in Query : Read(keep)

Spec == Init /\ [][Next]_<<window, reply>>
=============================================================================
