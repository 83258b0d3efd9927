----------------------------- MODULE MCKillRun ------------------------------
(***************************************************************************)
(* A bounded instance of KillRun for TLC.                                   *)
(***************************************************************************)
EXTENDS MCEditing, KillRun

MCRunSpec == RunInit /\ [][RunNext /\ InBounds']_<<vars, runVars>>

=============================================================================
