-------------------------- MODULE MCPackageRollout --------------------------
(***************************************************************************)
(* The instance of PackageRollout for TLC.                                 *)
(***************************************************************************)
EXTENDS PackageRollout

CONSTANTS good, bad, shipped

MCBuilds == {good, bad}
MCWorks  == {good}
=============================================================================
