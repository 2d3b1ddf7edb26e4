------------------------- MODULE ConfigApplyProofs -------------------------
(***************************************************************************)
(* Writers that take turns keep the promise of LiveFile, for any number of *)
(* agent goroutines and editors, any configs, and process deaths at any    *)
(* point.                                                                  *)
(***************************************************************************)
EXTENDS ConfigApply, TLAPS

Busy(w) == pc[w] # "idle"

\* Writers take turns.
OneAtWork == \A v, w \in Writers : Busy(v) /\ Busy(w) => v = w

\* A writer that is not at work holds nothing, one at work has a body, only
\* editors check privately, and only the agent validates the candidate.
IdleHoldsNothing ==
  \A w \in Writers :
    /\ pc[w] # "write" => fd[w] = None
    /\ ~ Busy(w) => accepted[w] = None
    /\ Busy(w) => body[w] \in Configs
    /\ pc[w] = "check" => w \in Editors
    /\ pc[w] = "validate" => w \notin Editors

\* The candidate is never the live file, and the inode a writer has open is
\* the candidate, emptied.
CandidateApart ==
  /\ tmp # live
  /\ \A w \in Writers : pc[w] = "write" =>
       fd[w] = tmp /\ tmp # None /\ data[tmp] = Empty

\* What a writer has had accepted is what it is about to install.
AcceptedIsCandidate ==
  \A w \in Writers :
    /\ pc[w] \in {"check", "validate", "cleanup"} => accepted[w] = None
    /\ pc[w] \in {"open", "write"} =>
         accepted[w] = IF w \in Editors THEN body[w] ELSE None
    /\ pc[w] = "rename" =>
         tmp # None /\ accepted[w] = data[tmp]
    /\ accepted[w] \in Maybe(Vetted[w])

IInv ==
  /\ TypeOK
  /\ OneAtWork
  /\ IdleHoldsNothing
  /\ CandidateApart
  /\ AcceptedIsCandidate
  /\ LiveIsValidated

-----------------------------------------------------------------------------

\* The type invariant of ConfigApply holds whether or not writers take turns,
\* given only that a writer at work has a body and one at "write" a file.
HasFile ==
  \A w \in Writers :
    /\ pc[w] # "idle" => body[w] \in Configs
    /\ pc[w] = "write" => fd[w] \in Inodes

LEMMA TypeInit == Init => TypeOK /\ HasFile
  BY ConfigAssumption DEF Init, TypeOK, HasFile, Maybe, Contents

LEMMA TypeStep == TypeOK /\ HasFile /\ [Next]_vars => (TypeOK /\ HasFile)'
<1> SUFFICES ASSUME TypeOK, HasFile, [Next]_vars
             PROVE  (TypeOK /\ HasFile)'
  OBVIOUS
<1> USE ConfigAssumption DEF TypeOK, HasFile, Maybe, Contents
<1>1. ASSUME NEW w \in Writers, NEW c \in Configs, Begin(w, c)
      PROVE  (TypeOK /\ HasFile)'
  BY <1>1 DEF Begin, Goto
<1>2. ASSUME NEW w \in Writers, CheckPrivately(w)
      PROVE  (TypeOK /\ HasFile)'
  BY <1>2 DEF CheckPrivately, Goto, Leave
<1>3. ASSUME NEW w \in Writers, OpenTmp(w)
      PROVE  (TypeOK /\ HasFile)'
  BY <1>3 DEF OpenTmp, Goto
<1>4. ASSUME NEW w \in Writers, WriteTmp(w)
      PROVE  (TypeOK /\ HasFile)'
  BY <1>4 DEF WriteTmp, Written, Goto
<1>5. ASSUME NEW w \in Writers, Validate(w)
      PROVE  (TypeOK /\ HasFile)'
  BY <1>5 DEF Validate, Goto, Accepts
<1>6. ASSUME NEW w \in Writers, RenameTmp(w)
      PROVE  (TypeOK /\ HasFile)'
  BY <1>6 DEF RenameTmp, Renamed, Goto, Leave
<1>7. ASSUME NEW w \in Writers, Cleanup(w)
      PROVE  (TypeOK /\ HasFile)'
  BY <1>7 DEF Cleanup, Goto, Leave, Removed
<1>8. ASSUME NEW W \in SUBSET Writers, Crash(W)
      PROVE  (TypeOK /\ HasFile)'
  BY <1>8 DEF Crash
<1>9. ASSUME NEW w \in Writers, FailIO(w)
      PROVE  (TypeOK /\ HasFile)'
  BY <1>9 DEF FailIO, Renamed, Goto, Leave
<1>10. CASE UNCHANGED vars
  BY <1>10 DEF vars
<1> QED
  BY <1>1, <1>2, <1>3, <1>4, <1>5, <1>6, <1>7, <1>8, <1>9, <1>10, Zenon
     DEF Next, Step, Writers

\* Whatever the writers do, the model's state keeps its types: in particular
\* an open candidate is always an inode and an accepted body a config.
THEOREM TypeCorrect == Spec => []TypeOK
<1>1. Spec => [](TypeOK /\ HasFile)
  BY TypeInit, TypeStep, PTL DEF Spec
<1> QED
  BY <1>1, PTL

-----------------------------------------------------------------------------

\* Unless something was interrupted, a candidate that exists is one that a
\* writer at work has still to rename or to remove.  (Whether it is that
\* writer's own makes no difference: names are shared.)
CandidateOwed ==
  ~ interrupted /\ tmp # None =>
    \E w \in Writers : pc[w] \in {"write", "validate", "rename", "cleanup"}

LEMMA OwedStep == TypeOK /\ CandidateOwed /\ [Next]_vars => CandidateOwed'
<1> SUFFICES ASSUME TypeOK, CandidateOwed, [Next]_vars
             PROVE  CandidateOwed'
  OBVIOUS
<1> USE DEF TypeOK, CandidateOwed
<1>1. ASSUME NEW w \in Writers, NEW c \in Configs, Begin(w, c)
      PROVE  CandidateOwed'
  BY <1>1 DEF Begin, Goto
<1>2. ASSUME NEW w \in Writers, CheckPrivately(w)
      PROVE  CandidateOwed'
  BY <1>2 DEF CheckPrivately, Goto, Leave
<1>3. ASSUME NEW w \in Writers, OpenTmp(w)
      PROVE  CandidateOwed'
  <2>1. pc'[w] = "write"
    BY <1>3 DEF OpenTmp, Goto
  <2> QED
    BY <2>1
<1>4. ASSUME NEW w \in Writers, WriteTmp(w)
      PROVE  CandidateOwed'
  <2>1. pc'[w] \in {"rename", "validate"}
    BY <1>4 DEF WriteTmp, Goto
  <2> QED
    BY <2>1
<1>5. ASSUME NEW w \in Writers, Validate(w)
      PROVE  CandidateOwed'
  <2>1. pc'[w] \in {"rename", "cleanup"}
    BY <1>5 DEF Validate, Goto
  <2> QED
    BY <2>1
<1>6. ASSUME NEW w \in Writers, RenameTmp(w)
      PROVE  CandidateOwed'
  BY <1>6 DEF RenameTmp
<1>7. ASSUME NEW w \in Writers, Cleanup(w)
      PROVE  CandidateOwed'
  BY <1>7 DEF Cleanup, Removed
<1>8. ASSUME NEW W \in SUBSET Writers, Crash(W)
      PROVE  CandidateOwed'
  BY <1>8 DEF Crash
<1>9. ASSUME NEW w \in Writers, FailIO(w)
      PROVE  CandidateOwed'
  BY <1>9 DEF FailIO
<1>10. CASE UNCHANGED vars
  BY <1>10 DEF vars
<1> QED
  BY <1>1, <1>2, <1>3, <1>4, <1>5, <1>6, <1>7, <1>8, <1>9, <1>10
     DEF Next, Step, Writers

\* However many writers are at work at the same time, and whoever's candidate
\* each of them renames or removes, config.yaml.tmp is gone once all are done.
THEOREM NoCandidateLeft == Spec => []NoStrayCandidate
<1>1. Init => CandidateOwed
  BY DEF Init, CandidateOwed
<1>2. CandidateOwed => NoStrayCandidate
  <2> SUFFICES ASSUME CandidateOwed, ~ interrupted,
                      \A w \in Writers : pc[w] = "idle"
               PROVE  tmp = None
    BY DEF NoStrayCandidate
  <2> QED
    BY DEF CandidateOwed
<1> QED
  BY <1>1, <1>2, OwedStep, TypeCorrect, PTL DEF Spec

-----------------------------------------------------------------------------

\* What the two kinds of writer have vetted.
LEMMA VettedConfigs ==
  ASSUME NEW w \in Writers
  PROVE  /\ Vetted[w] \subseteq Configs
         /\ w \notin Editors => Vetted[w] = Valid
         /\ \A c \in Configs : w \in Editors /\ Substituted[c] \in Valid => c \in Vetted[w]
  BY ConfigAssumption DEF Vetted

\* The live file stays validated when its content does not change, and when
\* a vetted config replaces it.
LEMMA LiveKept ==
  ASSUME LiveIsValidated,
         \/ data'[live'] = data[live]
         \/ \E w \in Writers : data'[live'] \in Vetted[w]
  PROVE  LiveIsValidated'
  BY DEF LiveIsValidated, Vetted

LEMMA IInvInit == Init => IInv
  BY ConfigAssumption, Zenon
     DEF Init, IInv, TypeOK, OneAtWork, IdleHoldsNothing, CandidateApart,
         AcceptedIsCandidate, LiveIsValidated, Busy, Maybe, Contents

LEMMA IInvStep == ASSUME Exclusive
                  PROVE  IInv /\ [Next]_vars => IInv'
<1> SUFFICES ASSUME IInv, [Next]_vars PROVE IInv'
  OBVIOUS
<1> USE ConfigAssumption
<1>0. TypeOK' 
  <2>1. HasFile
    BY DEF IInv, HasFile, IdleHoldsNothing, CandidateApart, TypeOK, Maybe, Busy
  <2> QED
    BY <2>1, TypeStep DEF IInv
<1> USE DEF IInv, TypeOK, OneAtWork, IdleHoldsNothing, CandidateApart,
            AcceptedIsCandidate, Busy, Maybe, Contents
<1>1. ASSUME NEW w \in Writers, NEW c \in Configs, Begin(w, c)
      PROVE  IInv'
  <2>1. OneAtWork'
    BY <1>1 DEF Begin, Goto
  <2>2. IdleHoldsNothing'
    BY <1>1 DEF Begin, Goto
  <2>3. CandidateApart'
    BY <1>1 DEF Begin, Goto
  <2>4. AcceptedIsCandidate'
    BY <1>1 DEF Begin, Goto
  <2>5. LiveIsValidated'
    BY <1>1, LiveKept DEF Begin, Goto
  <2> QED
    BY <1>0, <2>1, <2>2, <2>3, <2>4, <2>5
<1>2. ASSUME NEW w \in Writers, CheckPrivately(w)
      PROVE  IInv'
  <2>1. OneAtWork'
    BY <1>2 DEF CheckPrivately, Goto, Leave, Accepts
  <2>2. IdleHoldsNothing'
    BY <1>2 DEF CheckPrivately, Goto, Leave, Accepts
  <2>3. CandidateApart'
    BY <1>2 DEF CheckPrivately, Goto, Leave, Accepts
  <2>4. AcceptedIsCandidate'
    BY <1>2, VettedConfigs DEF CheckPrivately, Goto, Leave, Accepts
  <2>5. LiveIsValidated'
    BY <1>2, LiveKept DEF CheckPrivately, Goto, Leave, Accepts
  <2> QED
    BY <1>0, <2>1, <2>2, <2>3, <2>4, <2>5
<1>3. ASSUME NEW w \in Writers, OpenTmp(w)
      PROVE  IInv'
  <2>1. OneAtWork'
    BY <1>3 DEF OpenTmp, Goto, Referenced
  <2>2. IdleHoldsNothing'
    BY <1>3 DEF OpenTmp, Goto, Referenced
  <2>3. CandidateApart'
    BY <1>3 DEF OpenTmp, Goto, Referenced
  <2>4. AcceptedIsCandidate'
    BY <1>3 DEF OpenTmp, Goto, Referenced
  <2>5. LiveIsValidated'
    BY <1>3, LiveKept DEF OpenTmp, Goto, Referenced
  <2> QED
    BY <1>0, <2>1, <2>2, <2>3, <2>4, <2>5
<1>4. ASSUME NEW w \in Writers, WriteTmp(w)
      PROVE  IInv'
  <2>1. OneAtWork'
    BY <1>4 DEF WriteTmp, Written, Goto
  <2>2. IdleHoldsNothing'
    BY <1>4 DEF WriteTmp, Written, Goto
  <2>3. CandidateApart'
    BY <1>4 DEF WriteTmp, Written, Goto
  <2>4. AcceptedIsCandidate'
    BY <1>4 DEF WriteTmp, Written, Goto
  <2>5. LiveIsValidated'
    BY <1>4, LiveKept DEF WriteTmp, Written, Goto
  <2> QED
    BY <1>0, <2>1, <2>2, <2>3, <2>4, <2>5
<1>5. ASSUME NEW w \in Writers, Validate(w)
      PROVE  IInv'
  <2>1. OneAtWork'
    BY <1>5 DEF Validate, Goto, Accepts
  <2>2. IdleHoldsNothing'
    BY <1>5 DEF Validate, Goto, Accepts
  <2>3. CandidateApart'
    BY <1>5 DEF Validate, Goto, Accepts
  <2>4. AcceptedIsCandidate'
    BY <1>5, VettedConfigs DEF Validate, Goto, Accepts
  <2>5. LiveIsValidated'
    BY <1>5, LiveKept DEF Validate, Goto, Accepts
  <2> QED
    BY <1>0, <2>1, <2>2, <2>3, <2>4, <2>5
<1>6. ASSUME NEW w \in Writers, RenameTmp(w)
      PROVE  IInv'
  <2>1. OneAtWork'
    BY <1>6 DEF RenameTmp, Renamed, Goto, Leave
  <2>2. IdleHoldsNothing'
    BY <1>6 DEF RenameTmp, Renamed, Goto, Leave
  <2>3. CandidateApart'
    BY <1>6 DEF RenameTmp, Renamed, Goto, Leave
  <2>4. AcceptedIsCandidate'
    BY <1>6 DEF RenameTmp, Renamed, Goto, Leave
  <2>5. LiveIsValidated'
    BY <1>6, LiveKept DEF RenameTmp, Renamed, Goto, Leave
  <2> QED
    BY <1>0, <2>1, <2>2, <2>3, <2>4, <2>5
<1>7. ASSUME NEW w \in Writers, Cleanup(w)
      PROVE  IInv'
  <2>1. OneAtWork'
    BY <1>7 DEF Cleanup, Goto, Leave, Removed
  <2>2. IdleHoldsNothing'
    BY <1>7 DEF Cleanup, Goto, Leave, Removed
  <2>3. CandidateApart'
    BY <1>7 DEF Cleanup, Goto, Leave, Removed
  <2>4. AcceptedIsCandidate'
    BY <1>7 DEF Cleanup, Goto, Leave, Removed
  <2>5. LiveIsValidated'
    BY <1>7, LiveKept DEF Cleanup, Goto, Leave, Removed
  <2> QED
    BY <1>0, <2>1, <2>2, <2>3, <2>4, <2>5
<1>8. ASSUME NEW W \in SUBSET Writers, Crash(W)
      PROVE  IInv'
  <2>1. OneAtWork'
    BY <1>8 DEF Crash
  <2>2. IdleHoldsNothing'
    BY <1>8 DEF Crash
  <2>3. CandidateApart'
    BY <1>8 DEF Crash
  <2>4. AcceptedIsCandidate'
    BY <1>8 DEF Crash
  <2>5. LiveIsValidated'
    BY <1>8, LiveKept DEF Crash
  <2> QED
    BY <1>0, <2>1, <2>2, <2>3, <2>4, <2>5
<1>9. ASSUME NEW w \in Writers, FailIO(w)
      PROVE  IInv'
  <2>1. OneAtWork'
    BY <1>9 DEF FailIO, Renamed, Goto, Leave
  <2>2. IdleHoldsNothing'
    BY <1>9 DEF FailIO, Renamed, Goto, Leave
  <2>3. CandidateApart'
    BY <1>9 DEF FailIO, Renamed, Goto, Leave
  <2>4. AcceptedIsCandidate'
    BY <1>9 DEF FailIO, Renamed, Goto, Leave
  <2>5. LiveIsValidated'
    BY <1>9, LiveKept DEF FailIO, Renamed, Goto, Leave
  <2> QED
    BY <1>0, <2>1, <2>2, <2>3, <2>4, <2>5
<1>10. CASE UNCHANGED vars
  <2>1. LiveIsValidated'
    BY <1>10, LiveKept DEF vars
  <2> QED
    BY <1>0, <1>10, <2>1 DEF vars
<1> HIDE DEF IInv, TypeOK, OneAtWork, IdleHoldsNothing, CandidateApart,
             AcceptedIsCandidate, Busy, Maybe, Contents
<1> QED
  BY <1>1, <1>2, <1>3, <1>4, <1>5, <1>6, <1>7, <1>8, <1>9, <1>10
     DEF Next, Step, Writers

LEMMA IInvAlways == ASSUME Exclusive
                    PROVE  Spec => []IInv
  BY IInvInit, IInvStep, PTL DEF Spec

\* While writers take turns, the config file is always one whole config that
\* the validation of some writer let through, across crashes, I/O errors and
\* left-over candidates (validateAndApply, opamp.go; EditorDoc::save, model.rs).
THEOREM LiveAlwaysValidated == ASSUME Exclusive
                               PROVE  Spec => []LiveIsValidated
<1>1. IInv => LiveIsValidated
  BY DEF IInv
<1> QED
  BY <1>1, IInvAlways, PTL

\* Where nobody runs the editor, the collector itself accepts the config file
\* at all times: the agent validates the very bytes it renames (opamp.go).
THEOREM AgentsKeepItValid == ASSUME Exclusive, Editors = {}
                             PROVE  Spec => []LiveIsValid
<1>1. LiveIsValidated => LiveIsValid
  BY VettedConfigs DEF LiveIsValidated, LiveIsValid
<1> QED
  BY <1>1, LiveAlwaysValidated, PTL

-----------------------------------------------------------------------------

LEMMA RefinesInit == Init => Promise!Init
  BY ConfigAssumption DEF Init, Promise!Init

LEMMA RefinesStep ==
  IInv /\ [Next]_vars => [Promise!Next]_<<data[live], accepted>>
<1> SUFFICES ASSUME IInv, [Next]_vars
             PROVE  [Promise!Next]_<<data[live], accepted>>
  OBVIOUS
<1> USE ConfigAssumption
    DEF IInv, TypeOK, OneAtWork, IdleHoldsNothing, CandidateApart,
        AcceptedIsCandidate, Busy, Maybe, Contents
<1> DEFINE Same == data'[live'] = data[live] /\ accepted' = accepted
<1>1. ASSUME NEW w \in Writers, NEW c \in Configs, Begin(w, c)
      PROVE  Same
  BY <1>1 DEF Begin
<1>2. ASSUME NEW w \in Writers, CheckPrivately(w)
      PROVE  Promise!Accept(w) \/ Same
  BY <1>2, VettedConfigs DEF CheckPrivately, Leave, Accepts, Promise!Accept
<1>3. ASSUME NEW w \in Writers, OpenTmp(w)
      PROVE  Same
  BY <1>3 DEF OpenTmp, Referenced
<1>4. ASSUME NEW w \in Writers, WriteTmp(w)
      PROVE  Same
  BY <1>4 DEF WriteTmp
<1>5. ASSUME NEW w \in Writers, Validate(w)
      PROVE  Promise!Accept(w) \/ Same
  BY <1>5, VettedConfigs DEF Validate, Accepts, Promise!Accept
<1>6. ASSUME NEW w \in Writers, RenameTmp(w)
      PROVE  Promise!Install(w)
  BY <1>6 DEF RenameTmp, Renamed, Leave, Promise!Install
<1>7. ASSUME NEW w \in Writers, Cleanup(w)
      PROVE  Same
  BY <1>7 DEF Cleanup, Leave
<1>8. ASSUME NEW W \in SUBSET Writers, Crash(W)
      PROVE  Promise!GiveUp
  BY <1>8 DEF Crash, Promise!GiveUp
<1>9. ASSUME NEW w \in Writers, FailIO(w)
      PROVE  Promise!GiveUp
  <2>1. accepted' = [v \in Writers |-> IF v \in {w} THEN None ELSE accepted[v]]
    BY <1>9 DEF FailIO, Renamed, Leave
  <2>2. data'[live'] = data[live]
    BY <1>9 DEF FailIO
  <2>3. {w} \in SUBSET Writers
    OBVIOUS
  <2> HIDE DEF IInv, TypeOK
  <2> QED
    BY <2>1, <2>2, <2>3, Zenon DEF Promise!GiveUp
<1>10. CASE UNCHANGED vars
  BY <1>10 DEF vars
<1> HIDE DEF IInv, TypeOK, OneAtWork, IdleHoldsNothing, CandidateApart,
             AcceptedIsCandidate, Busy, Maybe, Contents
<1> QED
  BY <1>1, <1>2, <1>3, <1>4, <1>5, <1>6, <1>7, <1>8, <1>9, <1>10
     DEF Next, Step, Writers, Promise!Next

\* While writers take turns, the two save procedures implement LiveFile: each
\* replacement of the config file installs, in one step, exactly what that
\* writer's validation had let through.
THEOREM TakingTurnsRefines == ASSUME Exclusive
                              PROVE  Spec => ImplementsLiveFile
<1>1. Spec => []IInv
  BY IInvAlways
<1> QED
  BY <1>1, RefinesInit, RefinesStep, PTL
     DEF Spec, ImplementsLiveFile, Promise!Spec
=============================================================================
