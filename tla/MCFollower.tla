----------------------------- MODULE MCFollower -----------------------------
(***************************************************************************)
(* Model-checking instances of Follower.                                   *)
(***************************************************************************)
EXTENDS Follower

=============================================================================
