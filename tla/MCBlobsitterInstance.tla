------------------------ MODULE MCBlobsitterInstance ------------------------
(***************************************************************************)
(* Model-checking instances of BlobsitterInstance.                         *)
(***************************************************************************)
EXTENDS BlobsitterInstance

=============================================================================
