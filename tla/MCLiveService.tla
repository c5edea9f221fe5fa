---------------------------- MODULE MCLiveService ----------------------------
(***************************************************************************)
(* Instances of LiveService for TLC.                                       *)
(***************************************************************************)
EXTENDS LiveService

=============================================================================
