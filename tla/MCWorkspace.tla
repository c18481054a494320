---------------------------- MODULE MCWorkspace ----------------------------
(* TLC instance of Workspace. *)
EXTENDS Workspace
=============================================================================
