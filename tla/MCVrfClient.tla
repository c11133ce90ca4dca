---------------------------- MODULE MCVrfClient ----------------------------
(***************************************************************************)
(* TLC instances of VrfClient.                                             *)
(***************************************************************************)
EXTENDS VrfClient

=============================================================================
