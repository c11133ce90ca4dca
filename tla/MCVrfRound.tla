----------------------------- MODULE MCVrfRound -----------------------------
(***************************************************************************)
(* TLC instances of VrfRound.  The board and the lamport amounts are small,*)
(* basis points are the real ones.                                         *)
(***************************************************************************)
EXTENDS VrfRound

=============================================================================
