---------------------------- MODULE MCCustodyLoop ----------------------------
(***************************************************************************)
(* A model-checking instance of CustodyLoop.                               *)
(***************************************************************************)
EXTENDS CustodyLoop

MCDuties == [kind : {"begin", "proof", "escape"}, of : 1..MaxTime]

=============================================================================
