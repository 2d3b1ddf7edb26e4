-------------------------- MODULE MCConfigRollout --------------------------
(***************************************************************************)
(* Instances of ConfigRollout for TLC.  Agents, connections, request slots *)
(* and handler slots are interchangeable; symmetry is used by the runs that *)
(* check safety only.                                                      *)
(***************************************************************************)
EXTENDS ConfigRollout, TLC

CONSTANTS c0, good, bad

MCConfigs == {c0, good, bad}
MCValid   == {c0, good}

Symmetry ==
  Permutations(Conns) \union Permutations(Requests) \union
  Permutations(Handlers)

FleetSymmetry == Permutations(Conns) \union Permutations(Agents)

FirstHandler == CHOOSE h \in Handlers : TRUE

\* Bound of rollout_fleet, which looks at two things: what one request can do
\* to two agents with a lost connection (one handler each is all it can use),
\* and what two requests can do to one agent and its two handlers.
FleetBudget ==
  IF used.requests = 1
  THEN \A a \in Agents, h \in Handlers \ {FirstHandler} : task[a][h].pc = "idle"
  ELSE used.requests = 2 =>
         /\ used.drops = 0
         /\ \A a, b \in Agents :
              /\ row[a].exists /\ row[b].exists => a = b
              /\ conn[a] # None /\ conn[b] # None => a = b
=============================================================================
