---------------------------- MODULE MCGuardDrift ----------------------------
(***************************************************************************)
(* The users and the team of MCGuard.  Bob can be removed and added again. *)
(***************************************************************************)
EXTENDS GuardDrift, MCGuard
=============================================================================
