---------------------------- MODULE MCPublication ----------------------------
(* Publication and the paymaster, instantiated by the MCPublication*.cfg files. *)
EXTENDS Publication
=============================================================================
