--------------------------- MODULE MCConfigApply ---------------------------
(***************************************************************************)
(* Instances of ConfigApply for TLC.                                       *)
(***************************************************************************)
EXTENDS ConfigApply, TLC

CONSTANTS
  c0,        \* the config the agent starts with
  bad,       \* a config the collector rejects
  secret,    \* rejected because of a ${VAR}; its placeholder copy is accepted
  port       \* ${VAR} where a number is wanted: accepted, its copy is not

MCConfigs == {c0, bad, secret, port}
MCValid   == {c0, port}
MCSubstituted ==
  [c \in MCConfigs |-> CASE c = secret -> c0 [] c = port -> bad [] OTHER -> c]

Symmetry == Permutations(Inodes) \union Permutations(Handlers)
=============================================================================
