------------------------------ MODULE LiveFile ------------------------------
(***************************************************************************)
(* What validateAndApply (opamp.go) and EditorDoc::save (model.rs) promise *)
(* about the collector's config file: a writer has a config vetted by its  *)
(* validation, then replaces the whole file by exactly that config, or     *)
(* gives up and leaves the file alone.  The file is never seen partial.    *)
(***************************************************************************)
CONSTANTS
  Writers,   \* whoever may replace the file
  Valid,     \* what the collector accepts
  Vetted,    \* Vetted[w]: the configs that w's validation lets through
  None

VARIABLES
  file,      \* the content a collector starting now would load
  accepted   \* accepted[w]: the config w had accepted and not yet installed

Init ==
  /\ file \in Valid
  /\ accepted = [w \in Writers |-> None]

Accept(w) ==
  /\ accepted[w] = None
  /\ \E c \in Vetted[w] : accepted' = [accepted EXCEPT ![w] = c]
  /\ UNCHANGED file

Install(w) ==
  /\ accepted[w] # None
  /\ file' = accepted[w]
  /\ accepted' = [accepted EXCEPT ![w] = None]

\* Writers that share a process give up together when it dies.
GiveUp ==
  /\ \E W \in SUBSET Writers :
       accepted' = [w \in Writers |-> IF w \in W THEN None ELSE accepted[w]]
  /\ UNCHANGED file

Next ==
  \/ \E w \in Writers : Accept(w) \/ Install(w)
  \/ GiveUp

Spec == Init /\ [][Next]_<<file, accepted>>
=============================================================================
