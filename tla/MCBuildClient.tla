---------------------------- MODULE MCBuildClient ----------------------------
(***************************************************************************)
(* BuildClient on small sets, for TLC.                                     *)
(***************************************************************************)
EXTENDS BuildClient
=============================================================================
